---------------------------- MODULE Spec2Model ----------------------------
(***************************************************************************)
(* Multi-signal authenticity scoring engine: TextAnalyzer                  *)
(* (src/js/textAnalyzer.js) and ImageAnalyzer (src/unnamed/part_000).      *)
(*                                                                         *)
(* A request is one call of analyze.  Its signal sources run concurrently  *)
(* (Promise.allSettled); the remote ones exchange requests and responses   *)
(* with the inference service, which answers as it likes.                  *)
(*                                                                         *)
(* JavaScript numbers are modelled as records [nan, v]: an integer v, or   *)
(* NaN.  Fractions are kept exact by integer arithmetic on numerators.     *)
(* A text is a sequence of atoms: word pieces, whitespace runs (SP) and    *)
(* sentence terminators (".", "!", "?"); strings are the atoms' names.     *)
(***************************************************************************)
EXTENDS Integers, Sequences, FiniteSets, TLC

VARIABLES
    subject,    \* per request: the arguments of analyze (kind, content, apiKey)
    pc,         \* per request: position of analyze
    net,        \* per request and remote source: the exchanges with the service
    remote,     \* per request and remote source: state of the async client call
    local,      \* per request and local source: state of the local analysis
    merged,     \* per request: results.warnings before duplicates are removed
    report,     \* per request: the object analyze returned
    view        \* per request: what the caller rendered from the report

vars == <<subject, pc, net, remote, local, merged, report, view>>

---------------------------------------------------------------------------
(* Bounds of the model *)

\* most "loading" answers the service gives to one client of one request
MaxLoading == 1

---------------------------------------------------------------------------
(* JavaScript numbers *)

Num(i) == [nan |-> FALSE, v |-> i]
NaN == [nan |-> TRUE, v |-> 0]

\* a < b, a > b on JS numbers: any comparison with NaN is false
Lt(a, b) == ~a.nan /\ ~b.nan /\ a.v < b.v
Gt(a, b) == ~a.nan /\ ~b.nan /\ a.v > b.v

Add(a, b) == IF a.nan \/ b.nan THEN NaN ELSE Num(a.v + b.v)
Sub(a, b) == IF a.nan \/ b.nan THEN NaN ELSE Num(a.v - b.v)

\* Math.round(p / q) for integers p and q > 0: halves go up (floor(x + 0.5))
RoundDiv(p, q) == (2 * p + q) \div (2 * q)

\* Math.round(num / q); 0 / 0 and NaN / q are NaN (q >= 0, num >= 0 when q = 0)
RoundQuot(num, q) ==
    IF num.nan \/ q = 0 THEN NaN ELSE Num(RoundDiv(num.v, q))

\* Math.max(lo, Math.min(hi, x)): Math.min and Math.max return NaN for NaN
Clamp(lo, hi, x) ==
    IF x.nan THEN NaN
    ELSE IF x.v > hi THEN Num(hi) ELSE IF x.v < lo THEN Num(lo) ELSE x

RECURSIVE SumNum(_)
\* scores.reduce((sum, s) => sum + s, 0)
SumNum(s) == IF s = <<>> THEN Num(0) ELSE Add(SumNum(SubSeq(s, 1, Len(s) - 1)), s[Len(s)])

RECURSIVE SumFromTo(_, _, _)
\* s[lo] + .. + s[hi], halving the range
SumFromTo(s, lo, hi) ==
    IF lo > hi THEN 0
    ELSE IF lo = hi THEN s[lo]
    ELSE LET mid == (lo + hi) \div 2 IN SumFromTo(s, lo, mid) + SumFromTo(s, mid + 1, hi)

SumInt(s) == SumFromTo(s, 1, Len(s))

RECURSIVE DedupKeepLast(_)
\* a faulty variant of Dedup: each value is kept once, at its last place
\* (ws.filter((w, i) => ws.lastIndexOf(w) === i))
DedupKeepLast(ws) ==
    IF ws = <<>> THEN <<>>
    ELSE LET rest == DedupKeepLast(Tail(ws))
         IN  IF \E i \in 1..Len(rest) : rest[i] = Head(ws) THEN rest
             ELSE <<Head(ws)>> \o rest

RECURSIVE Dedup(_)
\* [...new Set(ws)]: a Set keeps each value once, in insertion order
Dedup(ws) ==
    IF ws = <<>> THEN <<>>
    ELSE LET init == Dedup(SubSeq(ws, 1, Len(ws) - 1))
             last == ws[Len(ws)]
         IN  IF \E i \in 1..Len(init) : init[i] = last THEN init ELSE Append(init, last)

Range(s) == {s[i] : i \in 1..Len(s)}

---------------------------------------------------------------------------
(* The inference service: requests and responses *)

\* API_URL + model path of each fetch
ModelTextPrimary == "openai-community/roberta-base-openai-detector"
ModelTextAlternate == "Hello-SimpleAI/chatgpt-detector-roberta"
ModelAIImage == "umm-maybe/AI-image-detector"
ModelDeepfake == "dima806/deepfake_vs_real_faces_detection"

\* a field the JSON object does not have
Missing == "<missing>"
\* an array element that is JSON null
NullLabel == "<null>"

Item(label, score) == [label |-> label, score |-> score]
NullItem == Item(NullLabel, NaN)

\* label.toLowerCase()
ToLowerCase(label) ==
    CASE label = "Real" -> "real"
      [] label = "Fake" -> "fake"
      [] label = "LABEL_0" -> "label_0"
      [] label = "LABEL_1" -> "label_1"
      [] label = "Human" -> "human"
      [] OTHER -> label

\* s.includes(sub), for the lower-cased labels of the model and the clients' words
Includes(s, sub) ==
    \/ s = sub
    \/ sub = ""
    \/ <<s, sub>> \in {<<"realistic", "real">>, <<"human-made", "human">>}

\* Math.round(item.score * 100), the score field held in thousandths;
\* a missing field is undefined, and undefined * 100 is NaN
RoundScore(score) == IF score.nan THEN NaN ELSE Num((score.v + 5) \div 10)

\* JSON bodies.  t: "unparseable" (response.json() rejects), "error"
\* ({error: string}, loading: the string contains "loading"), "null",
\* "object" (an object without error field), "array" (nested: [[items]])
Body(t, loading, nested, items) ==
    [t |-> t, loading |-> loading, nested |-> nested, items |-> items]
Unparseable == Body("unparseable", FALSE, FALSE, <<>>)
ErrLoading == Body("error", TRUE, FALSE, <<>>)
ErrOther == Body("error", FALSE, FALSE, <<>>)
JsonNull == Body("null", FALSE, FALSE, <<>>)
JsonObject == Body("object", FALSE, FALSE, <<>>)
Flat(items) == Body("array", FALSE, FALSE, items)
Nested(items) == Body("array", FALSE, TRUE, items)

\* the label/score arrays the service answers with
Arrays ==
    { Flat(<<Item("Real", Num(875)), Item("Fake", Num(125))>>),
      Nested(<<Item("LABEL_0", Num(625)), Item("LABEL_1", Num(375))>>),
      Flat(<<Item("artificial", Num(875)), Item("human", Num(125))>>),
      Flat(<<Item("Real", Num(450)), Item("Fake", Num(550))>>),
      Flat(<<Item("Real", Num(1500))>>),
      Flat(<<Item("Real", NaN)>>),
      Flat(<<Item(Missing, Num(500))>>),
      Flat(<<NullItem>>),
      Flat(<<>>) }

\* a response: fetch rejects (net = FALSE), or resolves with response.ok and a body
Response(reached, ok, body) == [net |-> reached, ok |-> ok, body |-> body]
NetworkError == Response(FALSE, FALSE, Unparseable)
Pending == Response(FALSE, TRUE, Unparseable)

Responses ==
    {NetworkError}
    \cup {Response(TRUE, FALSE, b) : b \in {Unparseable, ErrLoading, ErrOther}}
    \cup {Response(TRUE, TRUE, b) :
            b \in {Unparseable, ErrLoading, ErrOther, JsonNull, JsonObject} \cup Arrays}

\* one fetch and its answer
Exchange(model, payload, cred, resp) ==
    [model |-> model, payload |-> payload, cred |-> cred, resp |-> resp]

---------------------------------------------------------------------------
(* Parsing a success body.  A parse either throws or gives a score. *)

Thrown == [thrown |-> TRUE, score |-> NaN]
Parsed(score) == [thrown |-> FALSE, score |-> score]

MatchTextPrimary(label) == label = "real" \/ label = "label_1"
MatchTextAlternate(label) == Includes(label, "human") \/ label = "label_0"
MatchAIImage(label) ==
    Includes(label, "real") \/ Includes(label, "human") \/ Includes(label, "authentic")
MatchDeepfake(label) == Includes(label, "real") \/ label = "real"

\* the label test of the client that talks to the model
Match(model, label) ==
    CASE model = ModelTextPrimary -> MatchTextPrimary(label)
      [] model = ModelTextAlternate -> MatchTextAlternate(label)
      [] model = ModelAIImage -> MatchAIImage(label)
      [] model = ModelDeepfake -> MatchDeepfake(label)

\* the text clients read result.label.toLowerCase(), which throws on a missing
\* label; the image clients read item.label?.toLowerCase() || ''
StrictLabel(model) == model \in {ModelTextPrimary, ModelTextAlternate}

RECURSIVE ScanLabels(_, _, _)
\* for (const result of results) { if (match(label)) score = Math.round(...) }
\* Reading a field of a null element throws in both clients' forms.
ScanLabels(items, model, score) ==
    IF items = <<>> THEN Parsed(score)
    ELSE LET item == Head(items) IN
         IF item.label = NullLabel THEN Thrown
         ELSE IF item.label = Missing /\ StrictLabel(model) THEN Thrown
         ELSE LET label == IF item.label = Missing THEN "" ELSE ToLowerCase(item.label)
              IN  ScanLabels(Tail(items), model,
                             IF Match(model, label) THEN RoundScore(item.score) ELSE score)

\* detectAIContent, from "const data = await response.json()" on, error bodies aside
ParseTextPrimary(body) ==
    CASE body.t = "unparseable" -> Thrown
      [] body.t = "null" -> Thrown     \* data.error of null
      [] body.t = "array" -> ScanLabels(body.items, ModelTextPrimary, Num(50))
      [] OTHER -> Parsed(Num(50))

\* tryAlternateModel: data.error is not looked at; data[0] must be truthy
ParseTextAlternate(body) ==
    CASE body.t = "unparseable" -> Thrown
      [] body.t = "array" /\ body.nested ->
            ScanLabels(body.items, ModelTextAlternate, Num(50))
      [] body.t = "array" /\ ~body.nested /\ body.items # <<>>
                          /\ Head(body.items).label # NullLabel ->
            ScanLabels(body.items, ModelTextAlternate, Num(50))
      [] OTHER -> Parsed(Num(50))

\* a faulty variant of ParseImage: realScore starts undefined and the client
\* throws when no label of the array gave it a value
ParseImageNoDefault(body, model) ==
    CASE body.t = "unparseable" -> Thrown
      [] body.t = "array" /\ ~body.nested ->
            LET scan == ScanLabels(body.items, model, NaN)
            IN  IF ~scan.thrown /\ scan.score.nan THEN Thrown ELSE scan
      [] OTHER -> Thrown

\* detectAIGenerated and detectDeepfake: the elements of a nested array are
\* arrays, whose label is undefined
ParseImage(body, model) ==
    CASE body.t = "unparseable" -> Thrown
      [] body.t = "array" /\ ~body.nested -> ScanLabels(body.items, model, Num(50))
      [] OTHER -> Parsed(Num(50))

---------------------------------------------------------------------------
(* Texts: sequences of atoms *)

SP == " "
Terminators == {".", "!", "?", "..."}

\* atom.toLowerCase(), for the atoms of the model's texts
LowerAtom(a) ==
    CASE a = "Rain" -> "rain"
      [] a = "Grandmother" -> "grandmother"
      [] a = "Furthermore" -> "furthermore"
      [] a = "As" -> "as"
      [] a = "AI" -> "ai"
      [] a = "I" -> "i"
      [] a = "Shocking" -> "shocking"
      [] OTHER -> a

\* atoms without any letter a-z
NoLetterAtoms == {SP, "1234567890", "2024", "100%"} \cup Terminators

\* a.toLowerCase().replace(/[^a-z]/g, '')
LettersOnly(a) ==
    CASE a \in NoLetterAtoms -> ""
      [] a = "can't" -> "cant"
      [] a = "today's" -> "todays"
      [] a = "it's" -> "its"
      [] a = "mind-blowing" -> "mindblowing"
      [] a = "furthermore/moreover/additionally/significantly" ->
            "furthermoremoreoveradditionallysignificantly"
      [] a = "furthermore/moreover/additionally" -> "furthermoremoreoveradditionally"
      [] a = "shocking/urgent/bombshell" -> "shockingurgentbombshell"
      [] a = "shocking/urgent" -> "shockingurgent"
      [] OTHER -> LowerAtom(a)

\* a.toLowerCase().replace(/[^a-z']/g, '')
LettersApostrophe(a) ==
    CASE a \in NoLetterAtoms -> ""
      [] a = "mind-blowing" -> "mindblowing"
      [] a \in {"furthermore/moreover/additionally/significantly",
                "furthermore/moreover/additionally",
                "shocking/urgent/bombshell", "shocking/urgent"} -> LettersOnly(a)
      [] OTHER -> LowerAtom(a)

\* s.includes(p), s.endsWith(p), s.startsWith(p) for lower-cased atoms
AtomIncludes(s, p) ==
    \/ s = p
    \/ <<s, p>> \in {<<"secretly", "secret">>, <<"unproven", "proven">>,
                     <<"everybody", "every">>, <<"has", "as">>, <<"air", "ai">>}
    \/ /\ s \in {"furthermore/moreover/additionally/significantly",
                  "furthermore/moreover/additionally"}
       /\ p \in {"furthermore", "moreover", "additionally"}
    \/ (s = "furthermore/moreover/additionally/significantly" /\ p = "significantly")
    \/ /\ s \in {"shocking/urgent/bombshell", "shocking/urgent"}
       /\ p \in {"shocking", "urgent"}
    \/ (s = "shocking/urgent/bombshell" /\ p = "bombshell")
AtomEndsWith(s, p) == s = p \/ <<s, p>> \in {<<"has", "as">>}
AtomStartsWith(s, p) == s = p \/ <<s, p>> \in {<<"air", "ai">>}

RECURSIVE SplitAt(_, _)
\* text.split(separator): the runs between separator atoms, empty runs kept
SplitAt(text, seps) ==
    IF text = <<>> THEN << <<>> >>
    ELSE LET rest == SplitAt(Tail(text), seps) IN
         IF Head(text) \in seps THEN << <<>> >> \o rest
         ELSE << <<Head(text)>> \o Head(rest) >> \o Tail(rest)

RECURSIVE Without(_, _)
\* xs.filter(x => x.length > 0), empty being <<>> or ""
Without(xs, empty) ==
    IF xs = <<>> THEN <<>>
    ELSE (IF Head(xs) # empty THEN <<Head(xs)>> ELSE <<>>) \o Without(Tail(xs), empty)

RECURSIVE FilterNonBlank(_)
\* fragments.filter(s => s.trim()): those holding an atom that is not whitespace
FilterNonBlank(runs) ==
    IF runs = <<>> THEN <<>>
    ELSE (IF \E i \in 1..Len(Head(runs)) : Head(runs)[i] # SP THEN <<Head(runs)>> ELSE <<>>)
         \o FilterNonBlank(Tail(runs))

\* text.split(/\s+/)
Words(text) == SplitAt(text, {SP})

\* text.split(/[.!?]+/).filter(s => s.trim())
Sentences(text) == FilterNonBlank(SplitAt(text, Terminators))

\* s.trim().split(/\s+/).length of a fragment that is not blank
SentenceLength(s) == Len(Without(SplitAt(s, {SP}), <<>>))

SentenceLengths(text) ==
    LET ss == Sentences(text) IN [i \in 1..Len(ss) |-> SentenceLength(ss[i])]

RECURSIVE TextLength(_)
\* text.length
TextLength(text) == IF text = <<>> THEN 0 ELSE Len(Head(text)) + TextLength(Tail(text))

RECURSIVE JoinLettersOnly(_)
JoinLettersOnly(w) == IF w = <<>> THEN "" ELSE LettersOnly(Head(w)) \o JoinLettersOnly(Tail(w))

RECURSIVE JoinLettersApostrophe(_)
JoinLettersApostrophe(w) ==
    IF w = <<>> THEN "" ELSE LettersApostrophe(Head(w)) \o JoinLettersApostrophe(Tail(w))

\* does the phrase (lower-case atoms) occur in the text at atom i, as a substring
\* of the text (whole = FALSE) or between word boundaries (whole = TRUE)
PhraseAt(text, i, phrase, whole) ==
    LET n == Len(phrase) IN
    /\ i + n - 1 <= Len(text)
    /\ \A k \in 1..n :
         LET a == LowerAtom(text[i + k - 1]) IN
         IF whole \/ (1 < k /\ k < n) THEN a = phrase[k]
         ELSE IF n = 1 THEN AtomIncludes(a, phrase[k])
         ELSE IF k = 1 THEN AtomEndsWith(a, phrase[k])
         ELSE AtomStartsWith(a, phrase[k])

\* lowerText.includes(phrase); /phrase/gi.test(text)
HasPhrase(text, phrase) == \E i \in 1..Len(text) : PhraseAt(text, i, phrase, FALSE)

\* lowerText.match(/\bword\b/gi).length
CountWord(text, word) == Cardinality({i \in 1..Len(text) : PhraseAt(text, i, <<word>>, TRUE)})

\* sums over the sentence lengths: count, sum, sum of squares
Sum1(lens) == SumInt(lens)
Sum2(lens) == SumInt([i \in 1..Len(lens) |-> lens[i] * lens[i]])

\* m^2 * variance = m * sum(len^2) - sum(len)^2, for m sentence lengths
ScaledVariance(lens) == Len(lens) * Sum2(lens) - Sum1(lens) * Sum1(lens)

---------------------------------------------------------------------------
(* HeuristicTextScorer *)

RECURSIVE Spaced(_)
\* the words of a phrase with single spaces between them
Spaced(ws) == IF Len(ws) <= 1 THEN ws ELSE <<Head(ws), SP>> \o Spaced(Tail(ws))

FormalPhrases ==
    { Spaced(<<"it", "is", "important", "to", "note">>),
      Spaced(<<"it", "is", "worth", "mentioning">>),
      Spaced(<<"in", "conclusion">>), <<"furthermore">>, <<"moreover">>,
      <<"additionally">>, Spaced(<<"it", "should", "be", "noted">>),
      Spaced(<<"one", "might", "argue">>), Spaced(<<"it", "is", "essential">>),
      Spaced(<<"in", "today's", "world">>), Spaced(<<"plays", "a", "crucial", "role">>),
      Spaced(<<"it", "is", "imperative">>), <<"significantly">>, <<"consequently">> }

SensationalWords ==
    { <<"shocking">>, <<"unbelievable">>, Spaced(<<"you", "won't", "believe">>),
      <<"breaking">>, <<"urgent">>, <<"secret">>,
      Spaced(<<"they", "don't", "want", "you", "to", "know">>),
      <<"exposed">>, <<"bombshell">>, <<"mind-blowing">>, <<"conspiracy">>,
      Spaced(<<"mainstream", "media">>), Spaced(<<"cover", "up">>), <<"whistleblower">> }

AbsoluteWords ==
    <<"always", "never", "every", "all", "none", "completely", "totally",
      "absolutely", "definitely", "undoubtedly", "certainly", "obviously">>

WarnUniform == "Very uniform sentence lengths detected (common in AI text)"
WarnFormal == "Excessive use of formal transitional phrases"
WarnLowTTR == "Low vocabulary diversity detected"
WarnSensational == "Sensationalist language patterns detected (potential misinformation)"
WarnAbsolute == "Excessive use of absolute/superlative language"

\* variance < 15; the variance of no sentence at all is 0 / 0 = NaN
VarianceBelow15(text) ==
    LET lens == SentenceLengths(text) IN
    Len(lens) > 0 /\ ScaledVariance(lens) < 15 * Len(lens) * Len(lens)

FormalCount(text) == Cardinality({p \in FormalPhrases : HasPhrase(text, p)})
SensationalCount(text) == Cardinality({p \in SensationalWords : HasPhrase(text, p)})
AbsoluteCount(text) ==
    SumInt([i \in 1..Len(AbsoluteWords) |-> CountWord(text, AbsoluteWords[i])])

\* uniqueWords.size / words.length < 0.4, the unique words normalised to a-z
FallbackTTRBelow(text) ==
    LET words == Words(text)
        unique == {JoinLettersOnly(words[i]) : i \in 1..Len(words)}
    IN  10 * Cardinality(unique) < 4 * Len(words)

\* the penalties of fallbackAIDetection in the order of the code
FallbackPenalties(text) ==
    <<[hit |-> VarianceBelow15(text), by |-> 15, msg |-> WarnUniform],
      [hit |-> FormalCount(text) > 3, by |-> 10, msg |-> WarnFormal],
      [hit |-> FallbackTTRBelow(text), by |-> 10, msg |-> WarnLowTTR],
      [hit |-> SensationalCount(text) > 2, by |-> 15, msg |-> WarnSensational],
      [hit |-> AbsoluteCount(text) > 5, by |-> 8, msg |-> WarnAbsolute]>>

RECURSIVE PenaltySum(_)
PenaltySum(ps) ==
    IF ps = <<>> THEN 0
    ELSE (IF Head(ps).hit THEN Head(ps).by ELSE 0) + PenaltySum(Tail(ps))

RECURSIVE PenaltyWarnings(_)
PenaltyWarnings(ps) ==
    IF ps = <<>> THEN <<>>
    ELSE (IF Head(ps).hit THEN <<Head(ps).msg>> ELSE <<>>) \o PenaltyWarnings(Tail(ps))

\* a faulty variant of fallbackAIDetection: the penalties do not accumulate,
\* the score is lowered by the first triggered penalty only
fallbackAIDetectionFirstOnly(text) ==
    LET ps == FallbackPenalties(text)
        hits == {i \in 1..Len(ps) : ps[i].hit}
        first == IF hits = {} THEN 0
                 ELSE ps[CHOOSE i \in hits : \A j \in hits : i <= j].by
    IN  [score |-> Clamp(5, 95, Num(75 - first)), warnings |-> PenaltyWarnings(ps)]

fallbackAIDetection(text) ==
    LET ps == FallbackPenalties(text) IN
    [score |-> Clamp(5, 95, Num(75 - PenaltySum(ps))), warnings |-> PenaltyWarnings(ps)]

WarnLowVariation == "Low sentence length variation (typical of AI-generated text)"
WarnLimitedVocabulary == "Limited vocabulary diversity"
WarnRhythm == "Unusually consistent writing rhythm"

\* the words with everything but a-z and ' removed, the empty ones dropped
CleanWords(text) ==
    LET words == Words(text)
    IN  Without([i \in 1..Len(words) |-> JoinLettersApostrophe(words[i])], "")

\* Math.round(Math.min(x, 95)) for x = c * p / q >= 0; 0 / 0 is NaN
RoundCapped(c, p, q) ==
    IF q = 0 THEN NaN
    ELSE IF c * p >= 95 * q THEN Num(95) ELSE Num(RoundDiv(c * p, q))

\* Math.round(c * Math.sqrt(d) / m) >= k for integers c, d >= 0, m > 0:
\* k - 1/2 <= c * sqrt(d) / m, that is ((2k-1) * m)^2 <= 4 c^2 d
RoundSqrtAtLeast(c, d, m, k) ==
    k <= 0 \/ ((2 * k - 1) * m) * ((2 * k - 1) * m) <= 4 * c * c * d

\* Math.round(Math.min(c * Math.sqrt(d) / m, cap))
RoundSqrtCapped(c, d, m, cap) ==
    CHOOSE k \in 0..cap :
        RoundSqrtAtLeast(c, d, m, k) /\ (k = cap \/ ~RoundSqrtAtLeast(c, d, m, k + 1))

\* the number of occurrences of each distinct clean word, largest first
RECURSIVE SortedFrequencies(_, _)
SortedFrequencies(clean, left) ==
    IF left = {} THEN <<>>
    ELSE LET count(w) == Cardinality({i \in 1..Len(clean) : clean[i] = w})
             top == CHOOSE w \in left : \A u \in left : count(w) >= count(u)
         IN  <<count(top)>> \o SortedFrequencies(clean, left \ {top})

analyzeLinguistics(text) ==
    LET clean == CleanWords(text)
        n == Len(clean)
        unique == Cardinality(Range(clean))
        vocabularyScore == RoundCapped(130, unique, n)
        lens == SentenceLengths(text)
        m == Len(lens)
        d == ScaledVariance(lens)
        \* burstinessValue = Math.round(stdDev * 10) / 10 against a bound b / 10
        burstinessAtLeast(b) == m > 0 /\ RoundSqrtAtLeast(10, d, m, b)
        burstinessBelow(b) == m > 0 /\ ~RoundSqrtAtLeast(10, d, m, b)
        variationScore == IF m = 0 THEN NaN ELSE Num(RoundSqrtCapped(8, d, m, 95))
        freq == SortedFrequencies(clean, Range(clean))
        top == SumInt(SubSeq(freq, 1, IF Len(freq) < 10 THEN Len(freq) ELSE 10))
        perplexityValue == IF n = 0 THEN NaN ELSE Num(RoundDiv(100 * (n - top), n))
        diversityScore ==
            LET sum == Add(vocabularyScore, variationScore) IN
            IF sum.nan THEN NaN ELSE Num(RoundDiv(sum.v, 2))
    IN  [perplexity |-> IF Gt(perplexityValue, Num(60)) THEN "High"
                        ELSE IF Gt(perplexityValue, Num(30)) THEN "Medium" ELSE "Low",
         burstiness |-> IF burstinessAtLeast(61) THEN "High"
                        ELSE IF burstinessAtLeast(31) THEN "Medium" ELSE "Low",
         diversityScore |-> diversityScore,
         variationScore |-> variationScore,
         vocabularyScore |-> vocabularyScore,
         warnings |->
            (IF Lt(variationScore, Num(35)) THEN <<WarnLowVariation>> ELSE <<>>)
            \o (IF Lt(vocabularyScore, Num(35)) THEN <<WarnLimitedVocabulary>> ELSE <<>>)
            \o (IF burstinessBelow(30) THEN <<WarnRhythm>> ELSE <<>>)]

---------------------------------------------------------------------------
(* Pattern analysis: weighted rules.  A rule is the set of phrases its     *)
(* regular expression matches; whole: the expression has \b around it.     *)

NoMsg == "<null>"

Rule(phrases, whole, weight, msg) ==
    [phrases |-> phrases, whole |-> whole, weight |-> weight, msg |-> msg]

RECURSIVE WordSeqs(_)
\* (a1|a2|..) (b1|b2|..) ..: every choice of one alternative per group, an
\* alternative being a sequence of words
WordSeqs(groups) ==
    IF groups = <<>> THEN {<<>>}
    ELSE {h \o t : h \in Head(groups), t \in WordSeqs(Tail(groups))}

PhrasesOf(groups) == {Spaced(ws) : ws \in WordSeqs(groups)}

\* /\blandscape\b.*\b(ever-changing|evolving|dynamic)\b/gi
LandscapeRule(text) ==
    \E i, j \in 1..Len(text) :
        /\ i < j
        /\ LowerAtom(text[i]) = "landscape"
        /\ LowerAtom(text[j]) \in {"ever-changing", "evolving", "dynamic"}

aiPatterns ==
    << Rule({Spaced(<<"as", "an", "ai">>)}, FALSE, -30, "Contains AI self-reference"),
       Rule({Spaced(<<"i", "cannot">>)}
              \cup PhrasesOf(<<{<<"i", "can't">>}, {<<"provide">>, <<"generate">>, <<"create">>}>>),
            FALSE, -20, "Contains AI refusal patterns"),
       Rule({<<"delve">>}, TRUE, -5, "Uses common AI vocabulary (\"delve\")"),
       Rule({}, TRUE, -5, NoMsg),
       Rule(PhrasesOf(<<{<<"in">>}, {<<"today's">>, <<"the", "modern">>, <<"the", "current">>},
                        {<<"world">>, <<"era">>, <<"age">>, <<"landscape">>}>>),
            FALSE, -8, "Uses generic temporal phrases"),
       Rule(PhrasesOf(<<{<<"it's">>, <<"its">>},
                        {<<"important">>, <<"crucial">>, <<"essential">>, <<"vital">>},
                        {<<"to">>},
                        {<<"note">>, <<"understand">>, <<"recognize">>, <<"remember">>}>>),
            FALSE, -8, NoMsg) >>

misinfoPatterns ==
    << Rule(PhrasesOf(<<{<<"share">>}, {<<"this">>, <<"before">>, <<"with", "everyone">>}>>),
            FALSE, -15, "Contains viral sharing prompts"),
       Rule(PhrasesOf(<<{<<"they">>, <<"the", "government">>, <<"media">>},
                        {<<"don't">>, <<"dont">>, <<"doesn't">>, <<"doesnt">>,
                         <<"won't">>, <<"wont">>},
                        {<<"want">>, <<"let">>}, {<<"you">>}, {<<"know">>, <<"see">>}>>),
            FALSE, -20, "Contains conspiracy language"),
       Rule({<<"100%">>, <<"guaranteed">>, <<"proven">>,
             Spaced(<<"scientifically", "proven">>)},
            FALSE, -10, "Makes absolute claims without sourcing"),
       Rule({Spaced(<<"wake", "up">>), <<"sheeple">>, Spaced(<<"open", "your", "eyes">>)},
            FALSE, -15, "Uses manipulation language"),
       Rule({Spaced(<<"mainstream", "media">>), <<"msm">>, Spaced(<<"big", "pharma">>),
             Spaced(<<"big", "tech">>)},
            FALSE, -10, "Uses anti-establishment rhetoric") >>

WarnNoSources == "No sources or references cited for claims made"

\* pattern.test(text), the pattern a fresh regular expression of this call
RuleMatches(text, rules, i) ==
    IF rules[i].phrases = {} THEN LandscapeRule(text)
    ELSE \E ph \in rules[i].phrases, k \in 1..Len(text) :
            PhraseAt(text, k, ph, rules[i].whole)

RECURSIVE RuleWeights(_, _, _)
RuleWeights(text, rules, i) ==
    IF i > Len(rules) THEN 0
    ELSE (IF RuleMatches(text, rules, i) THEN rules[i].weight ELSE 0)
         + RuleWeights(text, rules, i + 1)

RECURSIVE RuleWarnings(_, _, _)
RuleWarnings(text, rules, i) ==
    IF i > Len(rules) THEN <<>>
    ELSE (IF RuleMatches(text, rules, i) /\ rules[i].msg # NoMsg
          THEN <<rules[i].msg>> ELSE <<>>)
         \o RuleWarnings(text, rules, i + 1)

\* /(https?:\/\/|www\.)/gi.test(text)
HasLinks(text) ==
    \/ HasPhrase(text, <<"www", ".">>)
    \/ \E i \in 1..Len(text) : LowerAtom(text[i]) \in {"http://example", "https://example"}

\* /(according to|study (published|found|shows)|researchers? (at|from)|...)/gi
HasSourceMention(text) ==
    \E ph \in PhrasesOf(<<{<<"according", "to">>}>>)
              \cup PhrasesOf(<<{<<"study">>}, {<<"published">>, <<"found">>, <<"shows">>}>>)
              \cup PhrasesOf(<<{<<"researcher">>, <<"researchers">>}, {<<"at">>, <<"from">>}>>)
              \cup PhrasesOf(<<{<<"journal">>, <<"university">>}, {<<"of">>}>>) :
        HasPhrase(text, ph)

\* the number of double quotes in an atom
QuoteCount(a) == IF a \in {"\"proven\"", "\"secret\""} THEN 2 ELSE 0

\* /".*?"/g.test(text): two double quotes on one line
HasQuotes(text) == SumInt([i \in 1..Len(text) |-> QuoteCount(text[i])]) >= 2

\* a faulty variant of analyzePatterns: the scores are returned as they are,
\* without Math.max(5, Math.min(95, ..))
analyzePatternsUnclamped(text) ==
    LET sourced == HasSourceMention(text) \/ HasLinks(text)
        unsourced == ~HasSourceMention(text) /\ ~HasLinks(text) /\ TextLength(text) > 500
        naturalScore == 70 + RuleWeights(text, aiPatterns, 1)
        credibilityScore ==
            70 + RuleWeights(text, misinfoPatterns, 1)
               + (IF sourced THEN 10 ELSE 0)
               + (IF HasQuotes(text) THEN 5 ELSE 0)
               - (IF unsourced THEN 5 ELSE 0)
    IN  [naturalScore |-> Num(naturalScore),
         credibilityScore |-> Num(credibilityScore),
         warnings |-> RuleWarnings(text, aiPatterns, 1)
                      \o RuleWarnings(text, misinfoPatterns, 1)
                      \o (IF unsourced THEN <<WarnNoSources>> ELSE <<>>)]

analyzePatterns(text) ==
    LET sourced == HasSourceMention(text) \/ HasLinks(text)
        unsourced == ~HasSourceMention(text) /\ ~HasLinks(text) /\ TextLength(text) > 500
        naturalScore == 70 + RuleWeights(text, aiPatterns, 1)
        credibilityScore ==
            70 + RuleWeights(text, misinfoPatterns, 1)
               + (IF sourced THEN 10 ELSE 0)
               + (IF HasQuotes(text) THEN 5 ELSE 0)
               - (IF unsourced THEN 5 ELSE 0)
    IN  [naturalScore |-> Clamp(5, 95, Num(naturalScore)),
         credibilityScore |-> Clamp(5, 95, Num(credibilityScore)),
         warnings |-> RuleWarnings(text, aiPatterns, 1)
                      \o RuleWarnings(text, misinfoPatterns, 1)
                      \o (IF unsourced THEN <<WarnNoSources>> ELSE <<>>)]

---------------------------------------------------------------------------
(* Images.  An image subject: isBlob (a File or Blob), type (its MIME type), *)
(* size in bytes, readable (arrayBuffer() resolves), decodable (loadImage    *)
(* resolves), canvasOk (the canvas calls do not throw), width and height     *)
(* (natural size) and pixels: the RGB triples getImageData returns for the   *)
(* scaled canvas, row by row.                                                *)

Image(isBlob, type, size, readable, decodable, canvasOk, width, height, pixels) ==
    [isBlob |-> isBlob, type |-> type, size |-> size, readable |-> readable,
     decodable |-> decodable, canvasOk |-> canvasOk,
     width |-> width, height |-> height, pixels |-> pixels]

Min(a, b) == IF a < b THEN a ELSE b
Max(a, b) == IF a > b THEN a ELSE b
Abs(a) == IF a < 0 THEN -a ELSE a

\* imageData.type.split('/')[1]?.toUpperCase() || 'Unknown'
Format(img) ==
    IF ~img.isBlob THEN ""
    ELSE CASE img.type = "image/png" -> "PNG"
           [] img.type = "image/jpeg" -> "JPEG"
           [] img.type = "image/webp" -> "WEBP"
           [] OTHER -> "Unknown"

---------------------------------------------------------------------------
(* MetadataScorer *)

WarnSmallFile == "Very small file size may indicate heavy compression or modification"
WarnSquare == "Perfect square dimensions common in AI-generated images"
\* "x" stands for the multiplication sign of the source's string
WarnDimensions(width, height) ==
    "Image dimensions (" \o ToString(width) \o "x" \o ToString(height)
        \o ") match common AI generation sizes"

aiDimensions == {512, 768, 1024, 256, 2048}

\* analyzeMetadata; loaded: loadImage resolved
analyzeMetadata(img, loaded) ==
    LET fileSize == IF img.isBlob THEN img.size ELSE 0
        small == fileSize > 0 /\ fileSize < 10000
        large == fileSize > 0 /\ fileSize > 5 * 1024 * 1024
        matching == loaded /\ img.width \in aiDimensions /\ img.height \in aiDimensions
        square == loaded /\ img.width = img.height /\ img.width \in aiDimensions
        integrityScore == 70 - (IF small THEN 10 ELSE 0) + (IF large THEN 5 ELSE 0)
        metadataScore == 65 - (IF matching THEN 15 ELSE 0) - (IF square THEN 10 ELSE 0)
    IN  [integrityScore |-> Clamp(10, 95, Num(integrityScore)),
         metadataScore |-> Clamp(10, 95, Num(metadataScore)),
         warnings |-> (IF small THEN <<WarnSmallFile>> ELSE <<>>)
                      \o (IF matching THEN <<WarnDimensions(img.width, img.height)>> ELSE <<>>)
                      \o (IF square THEN <<WarnSquare>> ELSE <<>>)]

---------------------------------------------------------------------------
(* HeuristicImageScorer *)

WarnSmooth == "Unusually smooth color distribution (potential AI generation indicator)"
WarnEdges == "Low edge density detected (possible over-smoothing)"
WarnRepeat == "Repeating pixel patterns detected"

\* Math.floor(img.width * scale), scale = Math.min(maxSize / w, maxSize / h, 1)
CanvasSize(w, h, maxSize) ==
    IF w <= maxSize /\ h <= maxSize THEN <<w, h>>
    ELSE <<(w * maxSize) \div Max(w, h), (h * maxSize) \div Max(w, h)>>

\* pixel p (from 0) of the RGBA array, channel c (1 red, 2 green, 3 blue)
Channel(pixels, p, c) == pixels[p + 1][c]

\* Math.round((r + g + b) / 3)
Brightness(px) == RoundDiv(px[1] + px[2] + px[3], 3)

\* colorHistogram = new Array(256).fill(0); colorHistogram[brightness]++ for
\* every pixel
Histogram(pixels) ==
    LET seen == {Brightness(pixels[i]) : i \in 1..Len(pixels)}
    IN  [b \in 0..255 |->
            IF b \in seen
            THEN Cardinality({i \in 1..Len(pixels) : Brightness(pixels[i]) = b})
            ELSE 0]

\* for (let i = 1; i < 255; i++) smoothnessScore += |hist[i] - hist[i - 1]|
SmoothnessScore(pixels) ==
    LET colorHistogram == Histogram(pixels)
    IN  SumInt([i \in 1..254 |-> Abs(colorHistogram[i] - colorHistogram[i - 1])])

\* the interior pixels whose red-channel gradient magnitude exceeds 50
EdgeCount(pixels, width, height) ==
    Cardinality({xy \in (1..(width - 2)) \X (1..(height - 2)) :
        LET x == xy[1]
            y == xy[2]
            gx == Abs(Channel(pixels, y * width + (x + 1), 1)
                      - Channel(pixels, y * width + (x - 1), 1))
            gy == Abs(Channel(pixels, (y + 1) * width + x, 1)
                      - Channel(pixels, (y - 1) * width + x, 1))
        IN  gx * gx + gy * gy > 50 * 50})

\* for (let i = 0; i < sampleSize - step; i++): idx1 = i * 4 * step is pixel
\* i * step, idx2 = (i + step) * 4 is pixel i + step
RepeatCount(pixels, sampleSize, step) ==
    Cardinality({i \in 0..(sampleSize - step - 1) :
        /\ (i + step) * 4 + 2 < 4 * Len(pixels)
        /\ \A c \in 1..3 : Channel(pixels, i * step, c) = Channel(pixels, i + step, c)})

\* a faulty variant of analyzePixelPatterns: the catch block only logs, so
\* that a failed analysis returns the score it started with
analyzePixelPatternsNoDefault(img) ==
    IF ~img.decodable \/ ~img.canvasOk THEN [score |-> Num(70), warnings |-> <<>>]
    ELSE
    LET canvas == CanvasSize(img.width, img.height, 256)
        pixels == img.pixels
        totalPixels == canvas[1] * canvas[2]
        smooth == 10 * SmoothnessScore(pixels) < 3 * totalPixels
        fewEdges == 100 * EdgeCount(pixels, canvas[1], canvas[2]) < 5 * totalPixels
        sampleSize == Min(1000, totalPixels)
        step == Len(pixels) \div sampleSize
        repeating == 10 * RepeatCount(pixels, sampleSize, step) > 3 * sampleSize
        score == 70 - (IF smooth THEN 10 ELSE 0) - (IF fewEdges THEN 8 ELSE 0)
                    - (IF repeating THEN 10 ELSE 0)
    IN  [score |-> Clamp(10, 95, Num(score)),
         warnings |-> (IF smooth THEN <<WarnSmooth>> ELSE <<>>)
                      \o (IF fewEdges THEN <<WarnEdges>> ELSE <<>>)
                      \o (IF repeating THEN <<WarnRepeat>> ELSE <<>>)]

analyzePixelPatterns(img) ==
    IF ~img.decodable \/ ~img.canvasOk THEN [score |-> Num(60), warnings |-> <<>>]
    ELSE
    LET canvas == CanvasSize(img.width, img.height, 256)
        pixels == img.pixels
        totalPixels == canvas[1] * canvas[2]
        smooth == 10 * SmoothnessScore(pixels) < 3 * totalPixels
        fewEdges == 100 * EdgeCount(pixels, canvas[1], canvas[2]) < 5 * totalPixels
        sampleSize == Min(1000, totalPixels)
        step == Len(pixels) \div sampleSize
        repeating == 10 * RepeatCount(pixels, sampleSize, step) > 3 * sampleSize
        score == 70 - (IF smooth THEN 10 ELSE 0) - (IF fewEdges THEN 8 ELSE 0)
                    - (IF repeating THEN 10 ELSE 0)
    IN  [score |-> Clamp(10, 95, Num(score)),
         warnings |-> (IF smooth THEN <<WarnSmooth>> ELSE <<>>)
                      \o (IF fewEdges THEN <<WarnEdges>> ELSE <<>>)
                      \o (IF repeating THEN <<WarnRepeat>> ELSE <<>>)]

\* fallbackImageAnalysis
fallbackImageAnalysis ==
    [score |-> Num(60), warnings |-> <<"API unavailable - using basic heuristic analysis">>]

---------------------------------------------------------------------------
(* Subjects of the requests *)

NoText == <<>>
NoImage == Image(FALSE, "", 0, FALSE, FALSE, FALSE, 0, 0, <<>>)

\* the arguments of one analyze call; malformed: the text is not a string
Subject(kind, malformed, text, image, apiKey) ==
    [kind |-> kind, malformed |-> malformed, text |-> text, image |-> image,
     apiKey |-> apiKey]

TextVaried ==
    <<"Rain", ".", SP>> \o Spaced(<<"Grandmother", "baked", "bread", "because",
        "everybody", "enjoyed", "homemade", "strawberry", "marmalade">>)
TextFormal ==
    Spaced(<<"Furthermore", "moreover", "additionally", "significantly",
             "consequently", "proven">>) \o <<".">>
TextDigits ==
    Spaced(<<"1234567890", "1234567890", "1234567890", "1234567890", "1234567890">>)
TextSensational ==
    Spaced(<<"Shocking", "urgent", "secret", "bombshell", "always", "always",
             "always", "always", "always", "always">>) \o <<"!">>
TextAssistant ==
    Spaced(<<"As", "an", "AI", "language", "model", "I", "cannot", "delve", "into",
             "\"secret\"", "research", "according", "to", "www">>)
        \o <<".", "example", ".", "com">>

Texts == {TextVaried, TextFormal, TextDigits, TextSensational, TextAssistant}

Gray(v) == <<v, v, v>>
\* 2 x 2, every pixel mid-gray
PixelsGray == <<Gray(128), Gray(128), Gray(128), Gray(128)>>
\* 2 x 2, every pixel white
PixelsWhite == <<Gray(255), Gray(255), Gray(255), Gray(255)>>
\* 3 x 3, columns of rising brightness
PixelsColumns ==
    <<Gray(0), Gray(100), Gray(200), Gray(0), Gray(100), Gray(200),
      Gray(0), Gray(100), Gray(200)>>

Images ==
    { Image(TRUE, "image/png", 5000, TRUE, TRUE, TRUE, 2, 2, PixelsGray),
      Image(TRUE, "image/jpeg", 200000, TRUE, TRUE, TRUE, 3, 3, PixelsColumns),
      Image(TRUE, "", 6000000, TRUE, FALSE, FALSE, 0, 0, <<>>),
      Image(TRUE, "image/webp", 300000, TRUE, TRUE, FALSE, 512, 512, <<>>),
      Image(FALSE, "", 0, TRUE, TRUE, TRUE, 2, 2, PixelsWhite) }

\* a Blob whose bytes cannot be read
UnreadableImage == Image(TRUE, "image/png", 5000, FALSE, FALSE, FALSE, 0, 0, <<>>)

ApiKey == "hf_key"

Subjects ==
    {Subject("text", FALSE, t, NoImage, ApiKey) : t \in Texts}
    \cup {Subject("text", TRUE, NoText, NoImage, ApiKey)}
    \cup {Subject("image", FALSE, NoText, i, ApiKey) : i \in Images}
    \cup {Subject("image", TRUE, NoText, UnreadableImage, ApiKey)}

---------------------------------------------------------------------------
(* State of the sources *)

RemoteSources(kind) == IF kind = "text" THEN {"ai"} ELSE {"ai", "deepfake"}
LocalSources(kind) == IF kind = "text" THEN {"linguistic", "pattern"} ELSE {"metadata"}
AllRemote == {"ai", "deepfake"}
AllLocal == {"linguistic", "pattern", "metadata", "pixel"}

\* what a client call resolved with: null, or {humanScore} / {realScore}
Result(isNull, score) == [null |-> isNull, score |-> score]
Null == Result(TRUE, NaN)

Idle == [st |-> "idle", value |-> Null]
NoValue == [none |-> TRUE]

\* text.substring(0, 2000); an atom cut by the limit is dropped
RECURSIVE Substring(_, _)
Substring(text, n) ==
    IF text = <<>> \/ Len(Head(text)) > n THEN <<>>
    ELSE <<Head(text)>> \o Substring(Tail(text), n - Len(Head(text)))

\* the body of a fetch: JSON {inputs: text prefix}, or the image's bytes
\* (undefined when the image is no Blob)
Payload(sub) ==
    IF sub.kind = "text" THEN [inputs |-> Substring(sub.text, 2000), binary |-> <<>>]
    ELSE [inputs |-> <<>>,
          binary |-> IF sub.image.isBlob THEN <<sub.image>> ELSE <<>>]

\* the model a client's first request goes to
FirstModel(kind, s) ==
    IF kind = "text" THEN ModelTextPrimary
    ELSE IF s = "ai" THEN ModelAIImage ELSE ModelDeepfake

Fetch(sub, model) == Exchange(model, Payload(sub), sub.apiKey, Pending)

LastExchange(log) == log[Len(log)]

---------------------------------------------------------------------------
(* RemoteInferenceClient: what each client does with a response.           *)
(* next: "settle" (the call resolves with value), "retry" (wait 20 s and   *)
(* call itself again), "alternate" (call tryAlternateModel).               *)

Outcome(next, value) == [next |-> next, value |-> value]
Settle(parse) == Outcome("settle", IF parse.thrown THEN Null ELSE Result(FALSE, parse.score))

\* detectAIContent: !response.ok goes to the alternate model before the body
\* is read; data.error is looked at in a success response only
detectAIContent(resp) ==
    IF ~resp.net THEN Outcome("settle", Null)
    ELSE IF ~resp.ok THEN Outcome("alternate", Null)
    ELSE IF resp.body.t = "error"
         THEN IF resp.body.loading THEN Outcome("retry", Null) ELSE Outcome("settle", Null)
    ELSE Settle(ParseTextPrimary(resp.body))

tryAlternateModel(resp) ==
    IF ~resp.net \/ ~resp.ok THEN Outcome("settle", Null)
    ELSE Settle(ParseTextAlternate(resp.body))

\* detectAIGenerated and detectDeepfake: the error body of a response that is
\* not ok is read, {} standing for a body that does not parse
DetectImage(resp, model) ==
    IF ~resp.net THEN Outcome("settle", Null)
    ELSE IF ~resp.ok
         THEN IF resp.body.t = "error" /\ resp.body.loading
              THEN Outcome("retry", Null) ELSE Outcome("settle", Null)
    ELSE Settle(ParseImage(resp.body, model))

detectAIGenerated(resp) == DetectImage(resp, ModelAIImage)
detectDeepfake(resp) == DetectImage(resp, ModelDeepfake)

\* the client code that awaits the answer of a request to the model
Client(model, resp) ==
    CASE model = ModelTextPrimary -> detectAIContent(resp)
      [] model = ModelTextAlternate -> tryAlternateModel(resp)
      [] model = ModelAIImage -> detectAIGenerated(resp)
      [] model = ModelDeepfake -> detectDeepfake(resp)

\* the answers a client took as "loading" so far
LoadingCount(log) ==
    Cardinality({i \in 1..Len(log) :
        log[i].resp # Pending /\ Client(log[i].model, log[i].resp).next = "retry"})

---------------------------------------------------------------------------
(* AnalysisOrchestrator and ScoreAggregator *)

Entry(name, score) == [name |-> name, score |-> score]

NameTextModel == "AI Detection Model (RoBERTa)"
NameTextFallback == "AI Detection (Heuristic Fallback)"
NameImageModel == "AI Image Detection"
NameImageFallback == "AI Detection (Heuristic)"
NameDeepfake == "Deepfake Detection"
NameIntegrity == "File Integrity"
NameMetadata == "Metadata Consistency"
NamePixels == "Pixel Pattern Analysis"

WarnTextAI == "AI detection model indicates high probability of machine-generated content"
WarnImageAI == "Image shows strong indicators of AI generation"
WarnDeepfake == "Deepfake indicators detected in the image"

\* a settled promise of Promise.allSettled
Fulfilled(value) == [status |-> "fulfilled", value |-> value]

Scores(breakdown) == [i \in 1..Len(breakdown) |-> breakdown[i].score]

\* Math.round(scores.reduce((sum, s) => sum + s, 0) / scores.length)
OverallScore(breakdown) == RoundQuot(SumNum(Scores(breakdown)), Len(breakdown))

\* text.split(/\s+/).filter(w => w.length > 0).length
WordCount(text) == Len(Without(Words(text), <<>>))
SentenceCount(text) == Len(Sentences(text))

\* "Process AI Detection results" of TextAnalyzer.analyze
TextAIPart(text, aiDetection) ==
    IF aiDetection.status = "fulfilled" /\ ~aiDetection.value.null
    THEN LET aiScore == aiDetection.value.score IN
         [breakdown |-> <<Entry(NameTextModel, aiScore)>>,
          warnings |-> IF Lt(aiScore, Num(40)) THEN <<WarnTextAI>> ELSE <<>>]
    ELSE LET fallback == fallbackAIDetection(text) IN
         [breakdown |-> <<Entry(NameTextFallback, fallback.score)>>,
          warnings |-> fallback.warnings]

\* "Process Linguistic Analysis"
LinguisticPart(linguisticAnalysis) ==
    IF linguisticAnalysis.status = "fulfilled"
    THEN LET ling == linguisticAnalysis.value IN
         [breakdown |-> <<Entry("Linguistic Diversity", ling.diversityScore),
                          Entry("Sentence Variation", ling.variationScore),
                          Entry("Vocabulary Richness", ling.vocabularyScore)>>,
          warnings |-> ling.warnings]
    ELSE [breakdown |-> <<>>, warnings |-> <<>>]

\* "Process Pattern Analysis"
PatternPart(patternAnalysis) ==
    IF patternAnalysis.status = "fulfilled"
    THEN LET patterns == patternAnalysis.value IN
         [breakdown |-> <<Entry("Writing Pattern Naturalness", patterns.naturalScore),
                          Entry("Content Credibility Signals", patterns.credibilityScore)>>,
          warnings |-> patterns.warnings]
    ELSE [breakdown |-> <<>>, warnings |-> <<>>]

\* a faulty variant of TextParts: without a result of the remote model the
\* results object is left as it was created, breakdown: [] and warnings: []
TextPartsEarlyReturn(text, aiDetection, linguisticAnalysis, patternAnalysis) ==
    IF aiDetection.status = "fulfilled" /\ ~aiDetection.value.null
    THEN LET ai == TextAIPart(text, aiDetection)
             ling == LinguisticPart(linguisticAnalysis)
             pat == PatternPart(patternAnalysis)
         IN  [breakdown |-> ai.breakdown \o ling.breakdown \o pat.breakdown,
              warnings |-> ai.warnings \o ling.warnings \o pat.warnings]
    ELSE [breakdown |-> <<>>, warnings |-> <<>>]

\* results.breakdown and results.warnings of TextAnalyzer.analyze before the
\* overall score is taken and the duplicate warnings are removed
TextParts(text, aiDetection, linguisticAnalysis, patternAnalysis) ==
    LET ai == TextAIPart(text, aiDetection)
        ling == LinguisticPart(linguisticAnalysis)
        pat == PatternPart(patternAnalysis)
    IN  [breakdown |-> ai.breakdown \o ling.breakdown \o pat.breakdown,
         warnings |-> ai.warnings \o ling.warnings \o pat.warnings]

\* the object TextAnalyzer.analyze returns
TextResults(text, aiDetection, linguisticAnalysis, patternAnalysis) ==
    LET parts == TextParts(text, aiDetection, linguisticAnalysis, patternAnalysis)
        ling == linguisticAnalysis.value
    IN  [overallScore |-> OverallScore(parts.breakdown),
         wordCount |-> WordCount(text),
         sentenceCount |-> SentenceCount(text),
         perplexity |-> IF linguisticAnalysis.status = "fulfilled"
                        THEN ling.perplexity ELSE "N/A",
         burstiness |-> IF linguisticAnalysis.status = "fulfilled"
                        THEN ling.burstiness ELSE "N/A",
         breakdown |-> parts.breakdown,
         warnings |-> Dedup(parts.warnings)]

\* a faulty variant of ImageAIPart: the flag is set at the threshold of the
\* warning (results.aiGenerated = aiScore < 40)
ImageAIPartAtWarningThreshold(aiDetection) ==
    IF aiDetection.status = "fulfilled" /\ ~aiDetection.value.null
    THEN LET aiScore == aiDetection.value.score IN
         [breakdown |-> <<Entry(NameImageModel, aiScore)>>,
          warnings |-> IF Lt(aiScore, Num(40)) THEN <<WarnImageAI>> ELSE <<>>,
          aiGenerated |-> Lt(aiScore, Num(40))]
    ELSE [breakdown |-> <<Entry(NameImageFallback, fallbackImageAnalysis.score)>>,
          warnings |-> <<>>,
          aiGenerated |-> FALSE]

\* "Process AI Image Detection"
ImageAIPart(aiDetection) ==
    IF aiDetection.status = "fulfilled" /\ ~aiDetection.value.null
    THEN LET aiScore == aiDetection.value.score IN
         [breakdown |-> <<Entry(NameImageModel, aiScore)>>,
          warnings |-> IF Lt(aiScore, Num(40)) THEN <<WarnImageAI>> ELSE <<>>,
          aiGenerated |-> Lt(aiScore, Num(50))]
    ELSE [breakdown |-> <<Entry(NameImageFallback, fallbackImageAnalysis.score)>>,
          warnings |-> <<>>,
          aiGenerated |-> FALSE]

\* a faulty variant of DeepfakePart: without a result of the detector no
\* entry is pushed
DeepfakePartNoEntry(deepfakeDetection) ==
    IF deepfakeDetection.status = "fulfilled" /\ ~deepfakeDetection.value.null
    THEN LET dfScore == deepfakeDetection.value.score IN
         [breakdown |-> <<Entry(NameDeepfake, dfScore)>>,
          warnings |-> IF Lt(dfScore, Num(40)) THEN <<WarnDeepfake>> ELSE <<>>,
          deepfakeScore |-> Sub(Num(100), dfScore)]
    ELSE [breakdown |-> <<>>,
          warnings |-> <<>>,
          deepfakeScore |-> Num(0)]

\* "Process Deepfake Detection"
DeepfakePart(deepfakeDetection) ==
    IF deepfakeDetection.status = "fulfilled" /\ ~deepfakeDetection.value.null
    THEN LET dfScore == deepfakeDetection.value.score IN
         [breakdown |-> <<Entry(NameDeepfake, dfScore)>>,
          warnings |-> IF Lt(dfScore, Num(40)) THEN <<WarnDeepfake>> ELSE <<>>,
          deepfakeScore |-> Sub(Num(100), dfScore)]
    ELSE [breakdown |-> <<Entry(NameDeepfake, Num(70))>>,
          warnings |-> <<>>,
          deepfakeScore |-> Num(0)]

\* a faulty variant of MetadataPart: the integrity score itself is taken as
\* the manipulation score (results.manipulationScore = meta.integrityScore)
MetadataPartIntegrityAsManipulation(metadataAnalysis) ==
    IF metadataAnalysis.status = "fulfilled"
    THEN LET meta == metadataAnalysis.value IN
         [breakdown |-> <<Entry(NameIntegrity, meta.integrityScore),
                          Entry(NameMetadata, meta.metadataScore)>>,
          warnings |-> meta.warnings,
          manipulationScore |-> meta.integrityScore]
    ELSE [breakdown |-> <<Entry(NameIntegrity, Num(65)), Entry(NameMetadata, Num(60))>>,
          warnings |-> <<>>,
          manipulationScore |-> Num(0)]

\* "Process Metadata Analysis"
MetadataPart(metadataAnalysis) ==
    IF metadataAnalysis.status = "fulfilled"
    THEN LET meta == metadataAnalysis.value IN
         [breakdown |-> <<Entry(NameIntegrity, meta.integrityScore),
                          Entry(NameMetadata, meta.metadataScore)>>,
          warnings |-> meta.warnings,
          manipulationScore |-> Sub(Num(100), meta.integrityScore)]
    ELSE [breakdown |-> <<Entry(NameIntegrity, Num(65)), Entry(NameMetadata, Num(60))>>,
          warnings |-> <<>>,
          manipulationScore |-> Num(0)]

\* "Statistical pixel analysis"
PixelPart(pixelAnalysis) ==
    [breakdown |-> <<Entry(NamePixels, pixelAnalysis.score)>>,
     warnings |-> pixelAnalysis.warnings]

\* a faulty variant of ImageParts: the two remote detectors are awaited as one
\* (Promise.all), so that without a result of the AI detector the result of
\* the deepfake detector is lost too
ImagePartsJoined(aiDetection, deepfakeDetection, metadataAnalysis, pixelAnalysis) ==
    LET ai == ImageAIPart(aiDetection)
        df == DeepfakePart(IF aiDetection.value.null THEN aiDetection
                           ELSE deepfakeDetection)
        meta == MetadataPart(metadataAnalysis)
        pix == PixelPart(pixelAnalysis)
    IN  [breakdown |-> ai.breakdown \o df.breakdown \o meta.breakdown \o pix.breakdown,
         warnings |-> ai.warnings \o df.warnings \o meta.warnings \o pix.warnings]

ImageParts(aiDetection, deepfakeDetection, metadataAnalysis, pixelAnalysis) ==
    LET ai == ImageAIPart(aiDetection)
        df == DeepfakePart(deepfakeDetection)
        meta == MetadataPart(metadataAnalysis)
        pix == PixelPart(pixelAnalysis)
    IN  [breakdown |-> ai.breakdown \o df.breakdown \o meta.breakdown \o pix.breakdown,
         warnings |-> ai.warnings \o df.warnings \o meta.warnings \o pix.warnings]

\* the object ImageAnalyzer.analyze returns
ImageResults(img, aiDetection, deepfakeDetection, metadataAnalysis, pixelAnalysis) ==
    LET parts == ImageParts(aiDetection, deepfakeDetection, metadataAnalysis, pixelAnalysis)
    IN  [authenticityScore |-> OverallScore(parts.breakdown),
         format |-> Format(img),
         aiGenerated |-> ImageAIPart(aiDetection).aiGenerated,
         deepfakeScore |-> DeepfakePart(deepfakeDetection).deepfakeScore,
         manipulationScore |-> MetadataPart(metadataAnalysis).manipulationScore,
         breakdown |-> parts.breakdown,
         warnings |-> Dedup(parts.warnings)]

\* a faulty variant of Verdict: the bounds of the bands taken inclusive
\* (score >= 70 ? 'authentic' : score >= 40 ? 'suspicious' : 'fake')
VerdictInclusive(score) ==
    IF ~score.nan /\ score.v >= 70 THEN "authentic"
    ELSE IF ~score.nan /\ score.v >= 40 THEN "suspicious" ELSE "fake"

\* score > 70 ? 'authentic' : score > 40 ? 'suspicious' : 'fake'
Verdict(score) ==
    IF Gt(score, Num(70)) THEN "authentic"
    ELSE IF Gt(score, Num(40)) THEN "suspicious" ELSE "fake"

\* what renderTextResults derives from the report
renderTextResults(results) == [verdict |-> Verdict(results.overallScore)]

\* what renderImageResults derives from the report: the verdict and the
\* detail items "AI Detection", "Deepfake" and "Manipulation"
renderImageResults(results) ==
    [verdict |-> Verdict(results.authenticityScore),
     aiDetection |-> IF results.aiGenerated THEN "Detected" ELSE "Not Detected",
     deepfake |-> IF Gt(results.deepfakeScore, Num(50)) THEN "Likely" ELSE "Unlikely",
     manipulation |-> IF Gt(results.manipulationScore, Num(50))
                      THEN "Detected" ELSE "Not Detected"]

---------------------------------------------------------------------------
(* The requests *)

Reqs == DOMAIN subject

NoReport == [none |-> TRUE]
NoView == [none |-> TRUE]

\* no call of analyze has run yet
Fresh(reqs) ==
    /\ pc = [r \in reqs |-> "start"]
    /\ net = [r \in reqs |-> [s \in AllRemote |-> <<>>]]
    /\ remote = [r \in reqs |-> [s \in AllRemote |-> Idle]]
    /\ local = [r \in reqs |-> [s \in AllLocal |-> [st |-> "idle", value |-> NoValue]]]
    /\ merged = [r \in reqs |-> <<>>]
    /\ report = [r \in reqs |-> NoReport]
    /\ view = [r \in reqs |-> NoView]

InitFor(reqs) == subject \in [reqs -> Subjects] /\ Fresh(reqs)

Init == InitFor({1})

\* the remote clients of request r start: each sends its first request
Dispatch(r, locals) ==
    LET sub == subject[r] IN
    /\ net' = [net EXCEPT ![r] = [s \in AllRemote |->
            IF s \in RemoteSources(sub.kind)
            THEN <<Fetch(sub, FirstModel(sub.kind, s))>> ELSE <<>>]]
    /\ remote' = [remote EXCEPT ![r] = [s \in AllRemote |->
            IF s \in RemoteSources(sub.kind)
            THEN [st |-> "fetching", value |-> Null] ELSE Idle]]
    /\ local' = [local EXCEPT ![r] = locals]
    /\ pc' = [pc EXCEPT ![r] = "collecting"]

\* a faulty variant of AnalyzeText: the pattern tables are built once for all
\* calls, so that the /g expressions keep the lastIndex of the call before and
\* find none of the phrases in a text analysed after another one
AnalyzeTextSharedPatterns(r) ==
    /\ pc[r] = "start"
    /\ subject[r].kind = "text"
    /\ IF subject[r].malformed
       THEN /\ pc' = [pc EXCEPT ![r] = "failed"]
            /\ UNCHANGED <<net, remote, local>>
       ELSE Dispatch(r, [local[r] EXCEPT
                !["linguistic"] = [st |-> "settled",
                                   value |-> analyzeLinguistics(subject[r].text)],
                !["pattern"] = [st |-> "settled",
                                value |-> analyzePatterns(
                                    IF \E q \in Reqs : local[q]["pattern"].st = "settled"
                                    THEN NoText ELSE subject[r].text)]])
    /\ UNCHANGED <<subject, merged, report, view>>

\* TextAnalyzer.analyze up to "await Promise.allSettled": text.split throws when
\* text is no string; detectAIContent runs up to its fetch; analyzeLinguistics
\* and analyzePatterns await nothing and are fulfilled when they return
AnalyzeText(r) ==
    /\ pc[r] = "start"
    /\ subject[r].kind = "text"
    /\ IF subject[r].malformed
       THEN /\ pc' = [pc EXCEPT ![r] = "failed"]
            /\ UNCHANGED <<net, remote, local>>
       ELSE Dispatch(r, [local[r] EXCEPT
                !["linguistic"] = [st |-> "settled",
                                   value |-> analyzeLinguistics(subject[r].text)],
                !["pattern"] = [st |-> "settled",
                                value |-> analyzePatterns(subject[r].text)]])
    /\ UNCHANGED <<subject, merged, report, view>>

\* the three sources of ImageAnalyzer.analyze start; analyzeMetadata runs up
\* to "await this.loadImage"
DispatchImage(r) ==
    Dispatch(r, [local[r] EXCEPT !["metadata"] = [st |-> "loading", value |-> NoValue]])

\* ImageAnalyzer.analyze up to "await imageData.arrayBuffer()" for a File or
\* Blob, and up to "await Promise.allSettled" otherwise (binaryData undefined)
AnalyzeImage(r) ==
    /\ pc[r] = "start"
    /\ subject[r].kind = "image"
    /\ IF subject[r].image.isBlob
       THEN /\ pc' = [pc EXCEPT ![r] = "reading"]
            /\ UNCHANGED <<net, remote, local>>
       ELSE DispatchImage(r)
    /\ UNCHANGED <<subject, merged, report, view>>

\* arrayBuffer() settles
ReadBinary(r) ==
    /\ pc[r] = "reading"
    /\ IF subject[r].image.readable
       THEN DispatchImage(r)
       ELSE /\ pc' = [pc EXCEPT ![r] = "failed"]
            /\ UNCHANGED <<net, remote, local>>
    /\ UNCHANGED <<subject, merged, report, view>>

\* the service answers the request in flight of source s (or the fetch
\* fails), and the client runs to its next await or to its end
Respond(r, s, resp) ==
    /\ remote[r][s].st = "fetching"
    /\ LET log == net[r][s]
           last == LastExchange(log)
           answered == [log EXCEPT ![Len(log)].resp = resp]
           out == Client(last.model, resp)
       IN  /\ out.next = "retry" => LoadingCount(log) < MaxLoading
           /\ net' = [net EXCEPT ![r][s] =
                   IF out.next = "alternate"
                   THEN Append(answered, Fetch(subject[r], ModelTextAlternate))
                   ELSE answered]
           /\ remote' = [remote EXCEPT ![r][s] =
                   CASE out.next = "settle" -> [st |-> "settled", value |-> out.value]
                     [] out.next = "retry" -> [st |-> "waiting", value |-> Null]
                     [] out.next = "alternate" -> [st |-> "fetching", value |-> Null]]
    /\ UNCHANGED <<subject, pc, local, merged, report, view>>

\* setTimeout(r, 20000) fires: the client calls itself with its own arguments
RetryAfterDelay(r, s) ==
    /\ remote[r][s].st = "waiting"
    /\ net' = [net EXCEPT ![r][s] =
            Append(@, Fetch(subject[r], FirstModel(subject[r].kind, s)))]
    /\ remote' = [remote EXCEPT ![r][s].st = "fetching"]
    /\ UNCHANGED <<subject, pc, local, merged, report, view>>

\* loadImage of analyzeMetadata settles, and analyzeMetadata returns
LoadImageMetadata(r) ==
    /\ local[r]["metadata"].st = "loading"
    /\ local' = [local EXCEPT ![r]["metadata"] =
            [st |-> "settled",
             value |-> analyzeMetadata(subject[r].image, subject[r].image.decodable)]]
    /\ UNCHANGED <<subject, pc, net, remote, merged, report, view>>

\* a faulty variant of AllSettled: the first promise to settle resolves the
\* wait (Promise.race)
FirstSettled(r) ==
    \/ \E s \in RemoteSources(subject[r].kind) : remote[r][s].st = "settled"
    \/ \E s \in LocalSources(subject[r].kind) : local[r][s].st = "settled"

\* Promise.allSettled resolves when every promise given to it has settled
AllSettled(r) ==
    /\ \A s \in RemoteSources(subject[r].kind) : remote[r][s].st = "settled"
    /\ \A s \in LocalSources(subject[r].kind) : local[r][s].st = "settled"

\* a faulty variant of CollectText: the results object is one for all calls,
\* so that the entries and warnings of a report returned before are in it
CollectTextSharedResults(r) ==
    /\ pc[r] = "collecting"
    /\ subject[r].kind = "text"
    /\ AllSettled(r)
    /\ LET ai == Fulfilled(remote[r]["ai"].value)
           ling == Fulfilled(local[r]["linguistic"].value)
           pat == Fulfilled(local[r]["pattern"].value)
           own == TextResults(subject[r].text, ai, ling, pat)
           before == {q \in Reqs : q # r /\ pc[q] = "returned" /\ subject[q].kind = "text"}
       IN  /\ merged' = [merged EXCEPT ![r] =
                   TextParts(subject[r].text, ai, ling, pat).warnings]
           /\ report' = [report EXCEPT ![r] =
                   IF before = {} THEN own
                   ELSE LET old == report[CHOOSE q \in before : TRUE]
                        IN  [own EXCEPT !.breakdown = old.breakdown \o own.breakdown,
                                        !.overallScore =
                                            OverallScore(old.breakdown \o own.breakdown),
                                        !.warnings = Dedup(old.warnings \o own.warnings)]]
    /\ pc' = [pc EXCEPT ![r] = "returned"]
    /\ UNCHANGED <<subject, net, remote, local, view>>

\* a faulty variant of CollectText: when detectAIContent gave no result,
\* analyze calls it once more and waits again before it goes on
CollectTextRedispatch(r) ==
    /\ pc[r] = "collecting"
    /\ subject[r].kind = "text"
    /\ AllSettled(r)
    /\ IF remote[r]["ai"].value.null /\ Len(net[r]["ai"]) < 3
       THEN /\ net' = [net EXCEPT ![r]["ai"] =
                    Append(@, Fetch(subject[r], ModelTextPrimary))]
            /\ remote' = [remote EXCEPT ![r]["ai"] = [st |-> "fetching", value |-> Null]]
            /\ UNCHANGED <<pc, merged, report>>
       ELSE LET ai == Fulfilled(remote[r]["ai"].value)
                ling == Fulfilled(local[r]["linguistic"].value)
                pat == Fulfilled(local[r]["pattern"].value)
            IN  /\ merged' = [merged EXCEPT ![r] =
                        TextParts(subject[r].text, ai, ling, pat).warnings]
                /\ report' = [report EXCEPT ![r] =
                        TextResults(subject[r].text, ai, ling, pat)]
                /\ pc' = [pc EXCEPT ![r] = "returned"]
                /\ UNCHANGED <<net, remote>>
    /\ UNCHANGED <<subject, local, view>>

\* TextAnalyzer.analyze from "Process AI Detection results" to its return
CollectText(r) ==
    /\ pc[r] = "collecting"
    /\ subject[r].kind = "text"
    /\ AllSettled(r)
    /\ LET ai == Fulfilled(remote[r]["ai"].value)
           ling == Fulfilled(local[r]["linguistic"].value)
           pat == Fulfilled(local[r]["pattern"].value)
       IN  /\ merged' = [merged EXCEPT ![r] =
                   TextParts(subject[r].text, ai, ling, pat).warnings]
           /\ report' = [report EXCEPT ![r] = TextResults(subject[r].text, ai, ling, pat)]
    /\ pc' = [pc EXCEPT ![r] = "returned"]
    /\ UNCHANGED <<subject, net, remote, local, view>>

\* ImageAnalyzer.analyze from "Process AI Image Detection" up to
\* "await this.analyzePixelPatterns", which runs up to its "await loadImage"
CollectImage(r) ==
    /\ pc[r] = "collecting"
    /\ subject[r].kind = "image"
    /\ AllSettled(r)
    /\ local' = [local EXCEPT ![r]["pixel"] = [st |-> "loading", value |-> NoValue]]
    /\ pc' = [pc EXCEPT ![r] = "pixels"]
    /\ UNCHANGED <<subject, net, remote, merged, report, view>>

\* a faulty variant of FinishImage: analyzePixelPatterns without its try/catch,
\* so that a failure of loadImage or of the canvas rejects analyze
FinishImageUncaught(r) ==
    /\ pc[r] = "pixels"
    /\ IF ~subject[r].image.decodable \/ ~subject[r].image.canvasOk
       THEN /\ pc' = [pc EXCEPT ![r] = "failed"]
            /\ UNCHANGED <<local, merged, report>>
       ELSE \E pix \in {analyzePixelPatterns(subject[r].image)} :
            LET ai == Fulfilled(remote[r]["ai"].value)
                df == Fulfilled(remote[r]["deepfake"].value)
                meta == Fulfilled(local[r]["metadata"].value)
            IN  /\ local' = [local EXCEPT ![r]["pixel"] =
                        [st |-> "settled", value |-> pix]]
                /\ merged' = [merged EXCEPT ![r] = ImageParts(ai, df, meta, pix).warnings]
                /\ report' = [report EXCEPT ![r] =
                        ImageResults(subject[r].image, ai, df, meta, pix)]
                /\ pc' = [pc EXCEPT ![r] = "returned"]
    /\ UNCHANGED <<subject, net, remote, view>>

\* a faulty variant of FinishImage: each detector pushes its entry when it
\* completes, so that the entry of a detector that had to wait for a retry
\* stands behind the entry of one that had not
FinishImageAsCompleted(r) ==
    /\ pc[r] = "pixels"
    /\ \E pix \in {analyzePixelPatterns(subject[r].image)} :
       LET ai == Fulfilled(remote[r]["ai"].value)
           df == Fulfilled(remote[r]["deepfake"].value)
           meta == Fulfilled(local[r]["metadata"].value)
           res == ImageResults(subject[r].image, ai, df, meta, pix)
           b == res.breakdown
       IN  /\ local' = [local EXCEPT ![r]["pixel"] = [st |-> "settled", value |-> pix]]
           /\ merged' = [merged EXCEPT ![r] = ImageParts(ai, df, meta, pix).warnings]
           /\ report' = [report EXCEPT ![r] =
                   IF Len(net[r]["ai"]) > Len(net[r]["deepfake"])
                   THEN [res EXCEPT !.breakdown = <<b[2], b[1]>> \o SubSeq(b, 3, Len(b))]
                   ELSE res]
    /\ pc' = [pc EXCEPT ![r] = "returned"]
    /\ UNCHANGED <<subject, net, remote, view>>

\* analyzePixelPatterns returns, and ImageAnalyzer.analyze runs to its return
FinishImage(r) ==
    /\ pc[r] = "pixels"
    /\ \E pix \in {analyzePixelPatterns(subject[r].image)} :
       LET ai == Fulfilled(remote[r]["ai"].value)
           df == Fulfilled(remote[r]["deepfake"].value)
           meta == Fulfilled(local[r]["metadata"].value)
       IN  /\ local' = [local EXCEPT ![r]["pixel"] = [st |-> "settled", value |-> pix]]
           /\ merged' = [merged EXCEPT ![r] = ImageParts(ai, df, meta, pix).warnings]
           /\ report' = [report EXCEPT ![r] =
                   ImageResults(subject[r].image, ai, df, meta, pix)]
    /\ pc' = [pc EXCEPT ![r] = "returned"]
    /\ UNCHANGED <<subject, net, remote, view>>

\* analyzeText after "await TextAnalyzer.analyze": renderTextResults(results)
RenderText(r) ==
    /\ pc[r] = "returned"
    /\ subject[r].kind = "text"
    /\ view[r] = NoView
    /\ view' = [view EXCEPT ![r] = renderTextResults(report[r])]
    /\ UNCHANGED <<subject, pc, net, remote, local, merged, report>>

\* analyzeImage after "await ImageAnalyzer.analyze": renderImageResults(results)
RenderImage(r) ==
    /\ pc[r] = "returned"
    /\ subject[r].kind = "image"
    /\ view[r] = NoView
    /\ view' = [view EXCEPT ![r] = renderImageResults(report[r])]
    /\ UNCHANGED <<subject, pc, net, remote, local, merged, report>>

Next ==
    \/ \E r \in Reqs : AnalyzeText(r)
    \/ \E r \in Reqs : AnalyzeImage(r)
    \/ \E r \in Reqs : ReadBinary(r)
    \/ \E r \in Reqs, s \in AllRemote, resp \in Responses : Respond(r, s, resp)
    \/ \E r \in Reqs, s \in AllRemote : RetryAfterDelay(r, s)
    \/ \E r \in Reqs : LoadImageMetadata(r)
    \/ \E r \in Reqs : CollectText(r)
    \/ \E r \in Reqs : CollectImage(r)
    \/ \E r \in Reqs : FinishImage(r)
    \/ \E r \in Reqs : RenderText(r)
    \/ \E r \in Reqs : RenderImage(r)

Spec == Init /\ [][Next]_vars

---------------------------------------------------------------------------
(* The aggregation alone: analyze from the moment Promise.allSettled has     *)
(* resolved, for sources that returned any warnings, the same text from two  *)
(* of them included.                                                         *)

\* most warnings one source returns
MaxWarnings == 2

SampleWarnings == {WarnTextAI, WarnImageAI, WarnSmooth}

RECURSIVE SeqsUpTo(_, _)
\* the sequences over S of length at most n
SeqsUpTo(S, n) ==
    IF n = 0 THEN {<<>>}
    ELSE LET shorter == SeqsUpTo(S, n - 1)
         IN  shorter \cup {Append(ws, w) : ws \in shorter, w \in S}

WarningLists == SeqsUpTo(SampleWarnings, MaxWarnings)

\* what a remote client resolved with
SampleResults == {Null, Result(FALSE, Num(30)), Result(FALSE, Num(88))}

\* what analyzeLinguistics, analyzePatterns and analyzeMetadata resolved with
LinguisticsWith(ws) ==
    [perplexity |-> "Medium", burstiness |-> "Medium", diversityScore |-> Num(60),
     variationScore |-> Num(50), vocabularyScore |-> Num(70), warnings |-> ws]
PatternsWith(ws) == [naturalScore |-> Num(70), credibilityScore |-> Num(65), warnings |-> ws]
MetadataWith(ws) == [integrityScore |-> Num(70), metadataScore |-> Num(50), warnings |-> ws]

Settled(value) == [st |-> "settled", value |-> value]

SettledSources(kind) ==
    IF kind = "text"
    THEN {[remote |-> [s \in AllRemote |-> IF s = "ai" THEN Settled(ai) ELSE Idle],
           local |-> [s \in AllLocal |->
                CASE s = "linguistic" -> Settled(LinguisticsWith(ling))
                  [] s = "pattern" -> Settled(PatternsWith(pat))
                  [] OTHER -> [st |-> "idle", value |-> NoValue]]] :
            ai \in SampleResults, ling \in WarningLists, pat \in WarningLists}
    ELSE {[remote |-> [s \in AllRemote |-> Settled(IF s = "ai" THEN ai ELSE df)],
           local |-> [s \in AllLocal |->
                CASE s = "metadata" -> Settled(MetadataWith(meta))
                  [] OTHER -> [st |-> "idle", value |-> NoValue]]] :
            ai \in SampleResults, df \in SampleResults, meta \in WarningLists}

AggregateSubjects ==
    { Subject("text", FALSE, TextFormal, NoImage, ApiKey),
      Subject("image", FALSE, NoText,
              Image(TRUE, "image/png", 5000, TRUE, TRUE, TRUE, 2, 2, PixelsGray), ApiKey) }

InitAggregate ==
    /\ subject \in [{1} -> AggregateSubjects]
    /\ pc = [r \in {1} |-> "collecting"]
    /\ net = [r \in {1} |-> [s \in AllRemote |-> <<>>]]
    /\ \E src \in SettledSources(subject[1].kind) :
            /\ remote = [r \in {1} |-> src.remote]
            /\ local = [r \in {1} |-> src.local]
    /\ merged = [r \in {1} |-> <<>>]
    /\ report = [r \in {1} |-> NoReport]
    /\ view = [r \in {1} |-> NoView]

NextAggregate ==
    \/ \E r \in Reqs : CollectText(r)
    \/ \E r \in Reqs : CollectImage(r)
    \/ \E r \in Reqs : FinishImage(r)

SpecAggregate == InitAggregate /\ [][NextAggregate]_vars

---------------------------------------------------------------------------
(* Two calls of analyze whose awaits interleave: either call may start at any *)
(* moment of the other, its end included.  Call 2 analyses a text; call 1    *)
(* analyses the same text, another text or an image.                         *)

TextRefusal == Spaced(<<"I", "cannot", "help">>) \o <<".">>

PairSubjects ==
    { Subject("text", FALSE, TextRefusal, NoImage, ApiKey),
      Subject("text", FALSE, TextAssistant, NoImage, ApiKey),
      Subject("image", FALSE, NoText,
              Image(TRUE, "image/png", 5000, TRUE, TRUE, TRUE, 2, 2, PixelsGray), ApiKey) }

\* the answers of the service: "loading" in a response that is ok and in one
\* that is not, and a label/score array
PairResponses ==
    { Response(TRUE, TRUE, ErrLoading),
      Response(TRUE, FALSE, ErrLoading),
      Response(TRUE, TRUE, Flat(<<Item("Real", Num(875)), Item("Fake", Num(125))>>)) }

InitPair ==
    /\ subject \in [{1, 2} -> PairSubjects]
    /\ subject[2] = Subject("text", FALSE, TextRefusal, NoImage, ApiKey)
    /\ Fresh({1, 2})

NextPair ==
    \/ \E r \in Reqs : AnalyzeText(r)
    \/ \E r \in Reqs : AnalyzeImage(r)
    \/ \E r \in Reqs : ReadBinary(r)
    \/ \E r \in Reqs, s \in AllRemote, resp \in PairResponses : Respond(r, s, resp)
    \/ \E r \in Reqs, s \in AllRemote : RetryAfterDelay(r, s)
    \/ \E r \in Reqs : LoadImageMetadata(r)
    \/ \E r \in Reqs : CollectText(r)
    \/ \E r \in Reqs : CollectImage(r)
    \/ \E r \in Reqs : FinishImage(r)

SpecPair == InitPair /\ [][NextPair]_vars

---------------------------------------------------------------------------
(* The heuristic fallback of the text pipeline: texts for every set of       *)
(* triggered conditions, analysed while the remote models fail.              *)

RECURSIVE Repeat(_, _)
Repeat(w, n) == IF n = 0 THEN <<>> ELSE <<w>> \o Repeat(w, n - 1)

\* words that hold four and three of the formal phrases, three and two of
\* the sensational terms
FormalFour == "furthermore/moreover/additionally/significantly"
FormalThree == "furthermore/moreover/additionally"
SensationalThree == "shocking/urgent/bombshell"
SensationalTwo == "shocking/urgent"

\* a text that triggers the named conditions of fallbackAIDetection and stays
\* at the threshold of the others: one sentence, or two of 1 and 9 or more
\* words; 4 or 3 formal phrases; 3 or 2 sensational terms; 6 or 5 absolutes;
\* 5 or 2 numbers, with which 5 of 13 or 14 words are distinct, or 5 of 10
\* or 11
FallbackText(uniform, formal, lowTTR, sensational, absolute) ==
    (IF uniform THEN <<"Rain", SP>> ELSE <<"Rain", ".", SP>>)
    \o Spaced(<<IF formal THEN FormalFour ELSE FormalThree,
                IF sensational THEN SensationalThree ELSE SensationalTwo>>
              \o Repeat("always", IF absolute THEN 6 ELSE 5)
              \o Repeat("2024", IF lowTTR THEN 5 ELSE 2))

FallbackTexts ==
    {FallbackText(u, f, t, s, a) : u \in BOOLEAN, f \in BOOLEAN, t \in BOOLEAN,
                                   s \in BOOLEAN, a \in BOOLEAN}

\* the answers of the service: no answer, and HTTP 500
FailureResponses == {NetworkError, Response(TRUE, FALSE, ErrOther)}

InitFallback ==
    /\ subject \in [{1} -> {Subject("text", FALSE, t, NoImage, ApiKey) : t \in FallbackTexts}]
    /\ Fresh({1})

NextFallback ==
    \/ \E r \in Reqs : AnalyzeText(r)
    \/ \E r \in Reqs, s \in AllRemote, resp \in FailureResponses : Respond(r, s, resp)
    \/ \E r \in Reqs : CollectText(r)
    \/ \E r \in Reqs : RenderText(r)

SpecFallback == InitFallback /\ [][NextFallback]_vars

---------------------------------------------------------------------------
(* The pattern rules of the text pipeline: texts for the combinations of     *)
(* matching rules and of sourcing.                                           *)

\* a word of 500 characters and one of 496
LongWord ==
    "xxxxxxxxxxxxxxxxxxxxxxxxxxxxxxxxxxxxxxxxxxxxxxxxxxxxxxxxxxxxxxxxxxxxxxxxxxxxxxxxxxxxxxxxxxxxxxxxxxxxxxxxxxxxxxxxxxxxxxxxxxxxxxxxxxxxxxxxxxxxxxxxxxxxxxxxxxxxxxxxxxxxxxxxxxxxxxxxxxxxxxxxxxxxxxxxxxxxxxxxxxxxxxxxxxxxxxxxxxxxxxxxxxxxxxxxxxxxxxxxxxxxxxxxxxxxxxxxxxxxxxxxxxxxxxxxxxxxxxxxxxxxxxxxxxxxxxxxxxxxxxxxxxxxxxxxxxxxxxxxxxxxxxxxxxxxxxxxxxxxxxxxxxxxxxxxxxxxxxxxxxxxxxxxxxxxxxxxxxxxxxxxxxxxxxxxxxxxxxxxxxxxxxxxxxxxxxxxxxxxxxxxxxxxxxxxxxxxxxxxxxxxxxxxxxxxxxxxxxxxxxxxxxxxxxxxxxxxxxxxxxxxxxxxxxxxxxxxxxxx"
Word496 ==
    "xxxxxxxxxxxxxxxxxxxxxxxxxxxxxxxxxxxxxxxxxxxxxxxxxxxxxxxxxxxxxxxxxxxxxxxxxxxxxxxxxxxxxxxxxxxxxxxxxxxxxxxxxxxxxxxxxxxxxxxxxxxxxxxxxxxxxxxxxxxxxxxxxxxxxxxxxxxxxxxxxxxxxxxxxxxxxxxxxxxxxxxxxxxxxxxxxxxxxxxxxxxxxxxxxxxxxxxxxxxxxxxxxxxxxxxxxxxxxxxxxxxxxxxxxxxxxxxxxxxxxxxxxxxxxxxxxxxxxxxxxxxxxxxxxxxxxxxxxxxxxxxxxxxxxxxxxxxxxxxxxxxxxxxxxxxxxxxxxxxxxxxxxxxxxxxxxxxxxxxxxxxxxxxxxxxxxxxxxxxxxxxxxxxxxxxxxxxxxxxxxxxxxxxxxxxxxxxxxxxxxxxxxxxxxxxxxxxxxxxxxxxxxxxxxxxxxxxxxxxxxxxxxxxxxxxxxxxxxxxxxxxxxxxxxxxxxxxx"

\* a phrase that matches rule i of aiPatterns
AIPhrase(i) ==
    CASE i = 1 -> <<"As", "an", "AI">>
      [] i = 2 -> <<"I", "cannot">>
      [] i = 3 -> <<"delve">>
      [] i = 4 -> <<"landscape", "evolving">>
      [] i = 5 -> <<"in", "today's", "world">>
      [] i = 6 -> <<"it's", "important", "to", "note">>

\* a phrase that matches rule i of misinfoPatterns
MisinfoPhrase(i) ==
    CASE i = 1 -> <<"share", "this">>
      [] i = 2 -> <<"they", "don't", "let", "you", "see">>
      [] i = 3 -> <<"proven">>
      [] i = 4 -> <<"sheeple">>
      [] i = 5 -> <<"msm">>

Sourcings == {"mention", "quotes", "long", "link"}

\* the words of a source mention, of quoted material and of length
SourcingWords(x) ==
    CASE x = "mention" -> <<"according", "to">>
      [] x = "quotes" -> <<"\"secret\"">>
      [] x = "long" -> <<LongWord>>
      [] x = "link" -> <<"www">>

RECURSIVE PhrasesThrough(_, _, _, _)
\* the phrases Phrase(i), i in chosen, for i = from..to in this order
PhrasesThrough(Phrase(_), chosen, from, to) ==
    IF from > to THEN <<>>
    ELSE (IF from \in chosen THEN Phrase(from) ELSE <<>>)
         \o PhrasesThrough(Phrase, chosen, from + 1, to)

\* a text in which the rules ai of aiPatterns and mis of misinfoPatterns match
\* and that has the sourcing src; the link, "www.", ends the text
PatternText(ai, mis, src) ==
    LET order == <<"mention", "quotes", "long", "link">>
        words == PhrasesThrough(AIPhrase, ai, 1, 6)
                 \o PhrasesThrough(MisinfoPhrase, mis, 1, 5)
                 \o PhrasesThrough(LAMBDA i : SourcingWords(order[i]),
                                   {i \in 1..4 : order[i] \in src}, 1, 4)
    IN  Spaced(IF words = <<>> THEN <<"Rain">> ELSE words)
        \o (IF "link" \in src THEN <<".">> ELSE <<>>)

\* every combination of matching rules of aiPatterns; every combination of
\* matching rules of misinfoPatterns, short and long; every sourcing, with no
\* rule and with all rules of misinfoPatterns; a text of exactly 500 characters
PatternTexts ==
    {PatternText(ai, {}, {}) : ai \in SUBSET (1..6)}
    \cup {PatternText({}, mis, src) : mis \in SUBSET (1..5), src \in {{}, {"long"}}}
    \cup {PatternText({}, mis, src) : mis \in {{}, 1..5}, src \in SUBSET Sourcings}
    \cup {<<"Rain", Word496>>}

\* the answer of the service: a label/score array
SuccessResponses ==
    {Response(TRUE, TRUE, Flat(<<Item("Real", Num(875)), Item("Fake", Num(125))>>))}

InitPatterns ==
    /\ subject \in [{1} -> {Subject("text", FALSE, t, NoImage, ApiKey) : t \in PatternTexts}]
    /\ Fresh({1})

NextPatterns ==
    \/ \E r \in Reqs : AnalyzeText(r)
    \/ \E r \in Reqs, s \in AllRemote, resp \in SuccessResponses : Respond(r, s, resp)
    \/ \E r \in Reqs : CollectText(r)
    \/ \E r \in Reqs : RenderText(r)

SpecPatterns == InitPatterns /\ [][NextPatterns]_vars

---------------------------------------------------------------------------
(* The local scorers of the image report: analyze for files of every size    *)
(* class, with and without dimensions, and for canvases of every reachable   *)
(* combination of pixel findings.                                            *)

\* file.size at and around the two thresholds of analyzeMetadata
FileSizes == {0, 1, 9999, 10000, 5 * 1024 * 1024, 5 * 1024 * 1024 + 1}

\* widths and heights inside and outside aiDimensions
Widths == {256, 300, 512, 2048}
Heights == {256, 300, 512}

\* 2 x 2, four different grays
PixelsSteps == <<Gray(10), Gray(60), Gray(110), Gray(160)>>
\* 3 x 3, mid-gray with a black right column
PixelsDarkColumn ==
    <<Gray(128), Gray(128), Gray(0), Gray(128), Gray(128), Gray(0),
      Gray(128), Gray(128), Gray(0)>>
\* 5 x 5, white with one black pixel in the middle
PixelsDot == [p \in 1..25 |-> IF p = 13 THEN Gray(0) ELSE Gray(255)]
\* 50 x 40, black and white in runs of two pixels
PixelsRuns == [p \in 1..2000 |-> IF ((p - 1) \div 2) % 2 = 0 THEN Gray(0) ELSE Gray(255)]

\* the canvases: width, height, pixels
Canvases ==
    { <<2, 2, PixelsGray>>, <<2, 2, PixelsWhite>>, <<2, 2, PixelsSteps>>,
      <<3, 3, PixelsColumns>>, <<3, 3, PixelsDarkColumn>>, <<5, 5, PixelsDot>>,
      <<50, 40, PixelsRuns>> }

\* Files and URLs whose canvas cannot be read (with and without dimensions),
\* and Files whose canvas can
ScorerImages ==
    {Image(TRUE, "image/png", size, TRUE, dec, FALSE, w, h, <<>>) :
        size \in FileSizes, dec \in BOOLEAN, w \in Widths, h \in Heights}
    \cup {Image(FALSE, "", 0, TRUE, dec, FALSE, w, h, <<>>) :
        dec \in BOOLEAN, w \in Widths, h \in Heights}
    \cup {Image(TRUE, "image/jpeg", size, TRUE, TRUE, TRUE, c[1], c[2], c[3]) :
        size \in {9999, 10000}, c \in Canvases}

InitScorers ==
    /\ subject \in [{1} -> {Subject("image", FALSE, NoText, i, ApiKey) : i \in ScorerImages}]
    /\ Fresh({1})

NextScorers ==
    \/ \E r \in Reqs : AnalyzeImage(r)
    \/ \E r \in Reqs : ReadBinary(r)
    \/ \E r \in Reqs, s \in AllRemote, resp \in SuccessResponses : Respond(r, s, resp)
    \/ \E r \in Reqs : LoadImageMetadata(r)
    \/ \E r \in Reqs : CollectImage(r)
    \/ \E r \in Reqs : FinishImage(r)
    \/ \E r \in Reqs : RenderImage(r)

SpecScorers == InitScorers /\ [][NextScorers]_vars

---------------------------------------------------------------------------
(* Two calls of analyze on the same subject, whose sources complete in any   *)
(* order: each detector may answer at once or after a "loading" answer and   *)
(* the retry delay, before or after the other sources of its call.           *)

OrderSubjects ==
    { Subject("text", FALSE, TextRefusal, NoImage, ApiKey),
      Subject("image", FALSE, NoText,
              Image(TRUE, "image/png", 5000, TRUE, TRUE, TRUE, 2, 2, PixelsGray), ApiKey) }

\* the answers of the service: "loading" in a response that is not ok and in
\* one that is, and a label/score array with a low score
OrderResponses ==
    { Response(TRUE, FALSE, ErrLoading),
      Response(TRUE, TRUE, ErrLoading),
      Response(TRUE, TRUE, Flat(<<Item("Real", Num(125)), Item("Fake", Num(875))>>)) }

InitOrder ==
    /\ subject \in [{1, 2} -> OrderSubjects]
    /\ subject[1] = subject[2]
    /\ Fresh({1, 2})

NextOrder ==
    \/ \E r \in Reqs : AnalyzeText(r)
    \/ \E r \in Reqs : AnalyzeImage(r)
    \/ \E r \in Reqs : ReadBinary(r)
    \/ \E r \in Reqs, s \in AllRemote, resp \in OrderResponses : Respond(r, s, resp)
    \/ \E r \in Reqs, s \in AllRemote : RetryAfterDelay(r, s)
    \/ \E r \in Reqs : LoadImageMetadata(r)
    \/ \E r \in Reqs : CollectText(r)
    \/ \E r \in Reqs : CollectImage(r)
    \/ \E r \in Reqs : FinishImage(r)

SpecOrder == InitOrder /\ [][NextOrder]_vars

---------------------------------------------------------------------------
(* The rendering alone: the callers of analyze from the moment the report    *)
(* is returned, for reports with any overall score.                          *)

\* greatest overall score of a report given to the renderers
MaxScore == 100

\* a text report and an image report with overall score n
SampleTextReport(n) ==
    [overallScore |-> Num(n), wordCount |-> 14, sentenceCount |-> 1,
     perplexity |-> "Medium", burstiness |-> "Low",
     breakdown |-> <<Entry(NameTextModel, Num(n))>>, warnings |-> <<>>]
SampleImageReport(n) ==
    [authenticityScore |-> Num(n), format |-> "PNG", aiGenerated |-> n < 50,
     deepfakeScore |-> Num(0), manipulationScore |-> Num(0),
     breakdown |-> <<Entry(NameImageModel, Num(n))>>, warnings |-> <<>>]

InitRender ==
    /\ subject \in [{1} -> AggregateSubjects]
    /\ pc = [r \in {1} |-> "returned"]
    /\ net = [r \in {1} |-> [s \in AllRemote |-> <<>>]]
    /\ remote = [r \in {1} |-> [s \in AllRemote |-> Idle]]
    /\ local = [r \in {1} |-> [s \in AllLocal |-> [st |-> "idle", value |-> NoValue]]]
    /\ merged = [r \in {1} |-> <<>>]
    /\ \E n \in 0..MaxScore :
            report = [r \in {1} |-> IF subject[r].kind = "text"
                                    THEN SampleTextReport(n) ELSE SampleImageReport(n)]
    /\ view = [r \in {1} |-> NoView]

NextRender ==
    \/ \E r \in Reqs : RenderText(r)
    \/ \E r \in Reqs : RenderImage(r)

SpecRender == InitRender /\ [][NextRender]_vars

---------------------------------------------------------------------------
(* Properties of the returned reports *)

Returned(r) == pc[r] = "returned"

\* results.overallScore of a text report, results.authenticityScore of an image report
OverallOf(r) ==
    IF subject[r].kind = "text" THEN report[r].overallScore ELSE report[r].authenticityScore

\* m is the integer nearest to sum / n, a half going up:
\* m - 1/2 <= sum / n < m + 1/2
NearestInteger(m, sum, n) ==
    /\ n > 0
    /\ n * (2 * m - 1) <= 2 * sum
    /\ 2 * sum < n * (2 * m + 1)

\* C1: in every returned report the overall score is a number, the arithmetic
\* mean of the scores of all entries of the report's breakdown rounded to the
\* nearest integer, halves rounded up
C1_OverallIsRoundedMean ==
    \A r \in Reqs : Returned(r) =>
        LET b == report[r].breakdown
            overall == OverallOf(r)
        IN  /\ ~overall.nan
            /\ NearestInteger(overall.v, SumInt([i \in 1..Len(b) |-> b[i].score.v]), Len(b))

\* the report of the text of digits: no word has a letter, the type-token
\* ratio is 0 / 0, and the overall score is NaN
C1_OverallNotANumber ==
    \E r \in Reqs :
        /\ Returned(r) /\ subject[r].text = TextDigits
        /\ report[r].breakdown[2] = Entry("Linguistic Diversity", NaN)
        /\ OverallOf(r) = NaN

\* C2: whenever analyze returned a report, the breakdown of the report holds
\* at least one entry, whichever sources failed
C2_BreakdownNonEmpty ==
    \A r \in Reqs : Returned(r) => Len(report[r].breakdown) >= 1

\* the remote client of source s resolved with null
NoResult(r, s) == remote[r][s].st = "settled" /\ remote[r][s].value.null

\* a report was returned although every source that can fail has failed: the
\* two remote detectors gave nothing and the image cannot be decoded
C2_ReportWhenAllFailed ==
    \E r \in Reqs :
        /\ Returned(r) /\ subject[r].kind = "image"
        /\ NoResult(r, "ai") /\ NoResult(r, "deepfake")
        /\ ~subject[r].image.decodable
        /\ Len(report[r].breakdown) = 5

\* C4: every score of the breakdown of every returned report is an integer
\* from 0 to 100, whatever the remote service answered
C4_ScoresInRange ==
    \A r \in Reqs : Returned(r) =>
        \A i \in 1..Len(report[r].breakdown) :
            LET score == report[r].breakdown[i].score
            IN  ~score.nan /\ score.v \in 0..100


\* a report whose AI-detection entry is 150: the service answered
\* [{label: "Real", score: 1.5}]
C4_ScoreAboveHundred ==
    \E r \in Reqs :
        /\ Returned(r)
        /\ LastExchange(net[r]["ai"]).resp = Response(TRUE, TRUE, Flat(<<Item("Real", Num(1500))>>))
        /\ report[r].breakdown[1].score = Num(150)

\* the warnings of the AI detection part of a report: the model's warning
\* below 40, or what the heuristic that stands in for the model returned
AIWarningsOf(r) ==
    LET ai == remote[r]["ai"].value IN
    IF ~ai.null
    THEN IF Lt(ai.score, Num(40))
         THEN <<IF subject[r].kind = "text" THEN WarnTextAI ELSE WarnImageAI>>
         ELSE <<>>
    ELSE IF subject[r].kind = "text" THEN fallbackAIDetection(subject[r].text).warnings
    ELSE <<>>

DeepfakeWarningsOf(r) ==
    LET df == remote[r]["deepfake"].value IN
    IF ~df.null /\ Lt(df.score, Num(40)) THEN <<WarnDeepfake>> ELSE <<>>

\* what the sources of a returned report returned, in the order AI detection,
\* linguistic, pattern (text) and AI detection, deepfake, metadata, pixel (image)
SourceOrder(r) ==
    IF subject[r].kind = "text"
    THEN AIWarningsOf(r) \o local[r]["linguistic"].value.warnings
            \o local[r]["pattern"].value.warnings
    ELSE AIWarningsOf(r) \o DeepfakeWarningsOf(r) \o local[r]["metadata"].value.warnings
            \o local[r]["pixel"].value.warnings

\* the place where w appears first in ws
FirstPlace(ws, w) == CHOOSE k \in 1..Len(ws) : ws[k] = w /\ \A l \in 1..(k - 1) : ws[l] # w

\* C3: the warnings of every returned report hold no string twice, hold the
\* strings the sources returned, and list them in the order of their first
\* appearance in the source order
C3_WarningsDeduplicated ==
    \A r \in Reqs : Returned(r) =>
        LET ws == report[r].warnings
            all == SourceOrder(r)
        IN  /\ \A i, j \in 1..Len(ws) : i # j => ws[i] # ws[j]
            /\ Range(ws) = Range(all)
            /\ \A i, j \in 1..Len(ws) :
                    i < j => FirstPlace(all, ws[i]) < FirstPlace(all, ws[j])

\* a text report whose AI detection and linguistic source returned the same
\* warning, the pattern source another one first: the report lists two
\* warnings of the four returned
C3_SameWarningTwice ==
    \E r \in Reqs :
        /\ Returned(r) /\ subject[r].kind = "text"
        /\ AIWarningsOf(r) = <<WarnTextAI>>
        /\ local[r]["linguistic"].value.warnings = <<WarnSmooth, WarnTextAI>>
        /\ local[r]["pattern"].value.warnings = <<WarnSmooth>>
        /\ report[r].warnings = <<WarnTextAI, WarnSmooth>>

\* analyze of request r is at a step it can take, or awaits an event that is
\* due: an answer of the service, the end of a retry delay, the image load
HasNextStep(r) ==
    \/ pc[r] \in {"start", "reading", "pixels"}
    \/ /\ pc[r] = "collecting"
       /\ \/ AllSettled(r)
          \/ \E s \in RemoteSources(subject[r].kind) :
                remote[r][s].st \in {"fetching", "waiting"}
          \/ \E s \in LocalSources(subject[r].kind) : local[r][s].st = "loading"

\* C5: analyze fails for a malformed subject only: a request with a well-formed
\* subject is never failed, whatever its sources ran into (network error,
\* error response, error body, malformed body, image that cannot be decoded),
\* and until its report is returned it has a next step
C5_OnlyMalformedSubjectFails ==
    \A r \in Reqs :
        /\ pc[r] = "failed" => subject[r].malformed
        /\ ~subject[r].malformed => Returned(r) \/ HasNextStep(r)

\* the last answer the client of source s got
LastResponse(r, s) == LastExchange(net[r][s]).resp

\* a report was returned for an image that cannot be decoded (no dimensions,
\* no pixels), whose AI detector met a network error and whose deepfake
\* detector an error response
C5_ReportDespiteFailures ==
    \E r \in Reqs :
        /\ Returned(r) /\ subject[r].kind = "image"
        /\ ~subject[r].image.decodable
        /\ LastResponse(r, "ai") = NetworkError
        /\ LastResponse(r, "deepfake") = Response(TRUE, FALSE, ErrOther)
        /\ local[r]["pixel"].value.score = Num(60)

\* C6: a report exists only when every source dispatched for the request has
\* settled: no remote client is fetching or waiting for its retry, no local
\* analysis is running
C6_ReportAfterAllSettled ==
    \A r \in Reqs : report[r] # NoReport =>
        /\ \A s \in RemoteSources(subject[r].kind) : remote[r][s].st = "settled"
        /\ \A s \in LocalSources(subject[r].kind) : local[r][s].st = "settled"
        /\ subject[r].kind = "image" => local[r]["pixel"].st = "settled"

\* a report was returned for a request one of whose remote clients was told
\* "loading", waited and asked again
C6_ReportAfterRetry ==
    \E r \in Reqs :
        /\ Returned(r) /\ report[r] # NoReport
        /\ \E s \in RemoteSources(subject[r].kind) :
                /\ Len(net[r][s]) = 2
                /\ net[r][s][1].model = net[r][s][2].model

\* the score the client of source s parsed from the last answer it got
OwnScore(r, s) ==
    LET last == LastExchange(net[r][s]) IN Client(last.model, last.resp).value.score

\* C7: what a source that succeeded contributes to the report is decided by
\* the subject and by the source's own answers alone, whatever became of the
\* other sources: its entries stand at its places of the breakdown with its
\* own scores, and its warnings are in the report
C7_FailureIsolation ==
    \A r \in Reqs : Returned(r) =>
        LET b == report[r].breakdown
            ws == Range(report[r].warnings)
        IN  IF subject[r].kind = "text"
            THEN LET ling == analyzeLinguistics(subject[r].text)
                     pat == analyzePatterns(subject[r].text)
                 IN  /\ ~NoResult(r, "ai") =>
                            /\ b[1] = Entry(NameTextModel, OwnScore(r, "ai"))
                            /\ Lt(OwnScore(r, "ai"), Num(40)) => WarnTextAI \in ws
                     /\ b[2] = Entry("Linguistic Diversity", ling.diversityScore)
                     /\ b[3] = Entry("Sentence Variation", ling.variationScore)
                     /\ b[4] = Entry("Vocabulary Richness", ling.vocabularyScore)
                     /\ b[5] = Entry("Writing Pattern Naturalness", pat.naturalScore)
                     /\ b[6] = Entry("Content Credibility Signals", pat.credibilityScore)
                     /\ Range(ling.warnings) \cup Range(pat.warnings) \subseteq ws
            ELSE LET meta == analyzeMetadata(subject[r].image, subject[r].image.decodable)
                     pix == analyzePixelPatterns(subject[r].image)
                 IN  /\ ~NoResult(r, "ai") =>
                            /\ b[1] = Entry(NameImageModel, OwnScore(r, "ai"))
                            /\ Lt(OwnScore(r, "ai"), Num(40)) => WarnImageAI \in ws
                     /\ ~NoResult(r, "deepfake") =>
                            /\ b[2] = Entry(NameDeepfake, OwnScore(r, "deepfake"))
                            /\ Lt(OwnScore(r, "deepfake"), Num(40)) => WarnDeepfake \in ws
                     /\ b[3] = Entry(NameIntegrity, meta.integrityScore)
                     /\ b[4] = Entry(NameMetadata, meta.metadataScore)
                     /\ b[5] = Entry(NamePixels, pix.score)
                     /\ Range(meta.warnings) \cup Range(pix.warnings) \subseteq ws

\* an image report where the AI detector failed with a network error while
\* the deepfake detector succeeded: the deepfake entry carries the score of
\* the detector's answer, 88
C7_OneFailsOtherSucceeds ==
    \E r \in Reqs :
        /\ Returned(r) /\ subject[r].kind = "image"
        /\ LastResponse(r, "ai") = NetworkError /\ NoResult(r, "ai")
        /\ LastResponse(r, "deepfake") =
                Response(TRUE, TRUE, Flat(<<Item("Real", Num(875)), Item("Fake", Num(125))>>))
        /\ report[r].breakdown[2] = Entry(NameDeepfake, Num(88))

\* the expected success body: an array of {label, score} objects
LabelScoreArray(body) ==
    /\ body.t = "array"
    /\ \A i \in 1..Len(body.items) :
            body.items[i].label \notin {Missing, NullLabel} /\ ~body.items[i].score.nan

\* the answer is a "loading" error: an error body whose text contains "loading"
LoadingError(resp) == resp.net /\ resp.body.t = "error" /\ resp.body.loading

\* the answer is an error other than "loading": a response that is not ok,
\* or an error body
NonLoadingError(resp) ==
    /\ resp.net
    /\ ~LoadingError(resp)
    /\ ~resp.ok \/ resp.body.t = "error"

\* the answer is a success response whose body is not the expected one
MalformedResponse(resp) ==
    resp.net /\ resp.ok /\ resp.body.t # "error" /\ ~LabelScoreArray(resp.body)

\* remote inference failed: the fetch failed, or the service answered with an
\* error other than "loading" or with a malformed response
RemoteFailure(resp) == ~resp.net \/ NonLoadingError(resp) \/ MalformedResponse(resp)

InferenceFailed(r, s) ==
    \E i \in 1..Len(net[r][s]) : net[r][s][i].resp # Pending /\ RemoteFailure(net[r][s][i].resp)

EntryNames(r) == {report[r].breakdown[i].name : i \in 1..Len(report[r].breakdown)}

FallbackWarnings == {WarnUniform, WarnFormal, WarnLowTTR, WarnSensational, WarnAbsolute}

\* C8: a text report holds the heuristic-fallback AI-detection entry exactly
\* when remote inference failed (error other than "loading", network failure,
\* malformed response), then without an entry of the remote model; when remote
\* inference succeeded the report holds no warning of the fallback heuristic
C8_FallbackIffRemoteFailed ==
    \A r \in Reqs : Returned(r) /\ subject[r].kind = "text" =>
        /\ NameTextFallback \in EntryNames(r) <=> InferenceFailed(r, "ai")
        /\ NameTextFallback \in EntryNames(r) => NameTextModel \notin EntryNames(r)
        /\ ~InferenceFailed(r, "ai") =>
                Range(report[r].warnings) \cap FallbackWarnings = {}


\* a text report whose first request was answered with an error response
\* other than "loading": a second request went to the alternate model, and
\* its score, 63, is in the report as the entry of the remote model
C8_ModelEntryAfterError ==
    \E r \in Reqs :
        /\ Returned(r) /\ subject[r].kind = "text"
        /\ Len(net[r]["ai"]) = 2
        /\ net[r]["ai"][1].resp = Response(TRUE, FALSE, ErrOther)
        /\ net[r]["ai"][2].model = ModelTextAlternate
        /\ report[r].breakdown[1] = Entry(NameTextModel, Num(63))
        /\ NameTextFallback \notin EntryNames(r)

\* the score that stands in for a remote detector of the image pipeline
FixedScore(s) == IF s = "ai" THEN Num(60) ELSE Num(70)
FixedName(s) == IF s = "ai" THEN NameImageFallback ELSE NameDeepfake
Place(s) == IF s = "ai" THEN 1 ELSE 2

\* C9: in an image report the entry of a remote detector that failed (error
\* other than "loading", network failure, malformed response) carries the
\* fixed score, 60 for AI detection and 70 for deepfake detection, and the
\* entries of the remaining sources are in the report
C9_FixedScoreOnRemoteFailure ==
    \A r \in Reqs : Returned(r) /\ subject[r].kind = "image" =>
        \A s \in {"ai", "deepfake"} : InferenceFailed(r, s) =>
            /\ Len(report[r].breakdown) = 5
            /\ report[r].breakdown[Place(s)] = Entry(FixedName(s), FixedScore(s))
            /\ {NameDeepfake, NameIntegrity, NameMetadata, NamePixels} \subseteq EntryNames(r)


\* an image report whose AI detector was answered with a success response
\* holding a JSON object and no array: the entry is the remote model's, at 50
C9_ModelEntryAfterMalformedBody ==
    \E r \in Reqs :
        /\ Returned(r) /\ subject[r].kind = "image"
        /\ LastExchange(net[r]["ai"]).resp = Response(TRUE, TRUE, JsonObject)
        /\ report[r].breakdown[1] = Entry(NameImageModel, Num(50))

\* the name of the entry of the remote model of source s
ModelEntryName(r, s) ==
    IF subject[r].kind = "text" THEN NameTextModel
    ELSE IF s = "ai" THEN NameImageModel ELSE NameDeepfake

\* C10: when a request of a remote client is answered with a "loading" error
\* and the following answer is a success, the following request is the same
\* request (same model, payload and credential), the client returns the score
\* parsed from the success, and the report holds it as the entry of the
\* remote model
C10_RetryIdenticalRequest ==
    \A r \in Reqs : \A s \in RemoteSources(subject[r].kind) :
        \A i \in 1..(Len(net[r][s]) - 1) :
            LET asked == net[r][s][i]
                again == net[r][s][i + 1]
                loadingThenSuccess ==
                    /\ LoadingError(asked.resp)
                    /\ again.resp # Pending /\ again.resp.net /\ again.resp.ok
                    /\ LabelScoreArray(again.resp.body)
            IN  loadingThenSuccess =>
                    /\ again.model = asked.model
                    /\ again.payload = asked.payload
                    /\ again.cred = asked.cred
                    /\ remote[r][s].value = Result(FALSE, OwnScore(r, s))
                    /\ Returned(r) =>
                            report[r].breakdown[Place(s)] =
                                Entry(ModelEntryName(r, s), OwnScore(r, s))

\* a text report whose first request was answered "loading" by a response
\* that is not ok: the next request went to the alternate model, whose
\* success is in the report
C10_OtherModelAfterLoading ==
    \E r \in Reqs :
        /\ Returned(r) /\ subject[r].kind = "text"
        /\ Len(net[r]["ai"]) = 2
        /\ net[r]["ai"][1].model = ModelTextPrimary
        /\ net[r]["ai"][1].resp = Response(TRUE, FALSE, ErrLoading)
        /\ net[r]["ai"][2].model = ModelTextAlternate
        /\ LabelScoreArray(net[r]["ai"][2].resp.body)
        /\ NameTextModel \in EntryNames(r)

\* every answer the client of source s got so far is a "loading" error
OnlyLoading(r, s) ==
    /\ \E i \in 1..Len(net[r][s]) : net[r][s][i].resp # Pending
    /\ \A i \in 1..Len(net[r][s]) :
            net[r][s][i].resp # Pending => LoadingError(net[r][s][i].resp)

\* what is left to do for the client of source s: 3 for every "loading" answer
\* it may still get, its wait, its fetch and the change to the alternate model
RemoteLeft(r, s) ==
    LET log == net[r][s] IN
    CASE remote[r][s].st = "settled" -> 0
      [] remote[r][s].st = "idle" -> 3 * MaxLoading + 3
      [] remote[r][s].st = "waiting" -> 3 * (MaxLoading - LoadingCount(log)) + 4
      [] remote[r][s].st = "fetching" ->
            3 * (MaxLoading - LoadingCount(log)) + 2
                + (IF LastExchange(log).model = ModelTextAlternate THEN 0 ELSE 1)

LocalLeft(r, s) ==
    CASE local[r][s].st = "idle" -> 2
      [] local[r][s].st = "loading" -> 1
      [] local[r][s].st = "settled" -> 0

PcLeft(r) ==
    CASE pc[r] = "start" -> 4
      [] pc[r] = "reading" -> 3
      [] pc[r] = "collecting" -> 2
      [] pc[r] = "pixels" -> 1
      [] OTHER -> 0

\* the steps request 1 has left at most
Variant ==
    PcLeft(1) + RemoteLeft(1, "ai") + RemoteLeft(1, "deepfake")
        + LocalLeft(1, "linguistic") + LocalLeft(1, "pattern")
        + LocalLeft(1, "metadata") + LocalLeft(1, "pixel")
        + (IF view[1] = NoView THEN 1 ELSE 0)

\* every step brings the request nearer to its end: with HasNextStep, a request
\* all of whose fetches are answered, whose timers fire and whose models answer
\* "loading" at most MaxLoading times returns its report
EveryStepAdvances == [][Variant' < Variant /\ Variant' >= 0]_vars

\* C11: as long as a remote model of a request has answered nothing but
\* "loading", the request has returned no report (no timeout and no retry cap
\* ends the retry loop); a request whose models answer "loading" finitely
\* often does return (EveryStepAdvances)
C11_NoReportWhileLoading ==
    \A r \in Reqs : \A s \in RemoteSources(subject[r].kind) :
        OnlyLoading(r, s) => ~Returned(r)

\* a text report was returned although both models answered "loading" and
\* nothing else: the primary model by a response that is not ok, after which
\* the alternate model was asked at once and its "loading" answer was final
C11_ReportAfterOnlyLoading ==
    \E r \in Reqs :
        /\ Returned(r) /\ subject[r].kind = "text"
        /\ Len(net[r]["ai"]) = 2
        /\ net[r]["ai"][1].resp = Response(TRUE, FALSE, ErrLoading)
        /\ net[r]["ai"][2].resp = Response(TRUE, FALSE, ErrLoading)
        /\ OnlyLoading(r, "ai")
        /\ report[r].breakdown[1].name = NameTextFallback

\* the answers the client of source s of request r got, in their order
Answers(r, s) == [i \in 1..Len(net[r][s]) |-> net[r][s][i].resp]

\* C12: two analyze calls with the identical text whose requests got the
\* identical sequence of answers returned identical reports (overallScore,
\* counts, labels, breakdown and warnings), however the two calls were
\* placed in time, the second starting after the return of the first included
C12_SameTextSameReport ==
    \A p, q \in Reqs :
        /\ Returned(p) /\ Returned(q)
        /\ subject[p].kind = "text" /\ subject[q] = subject[p]
        /\ Answers(p, "ai") = Answers(q, "ai")
        => report[p] = report[q]

\* two reports of the text with the refusal, each after a "loading" answer, a
\* retry and the same success: both hold the warning of the pattern rules and
\* the same six entries
C12_TwoEqualReports ==
    /\ Reqs = {1, 2}
    /\ Returned(1) /\ Returned(2)
    /\ subject[1].text = TextRefusal /\ subject[2].text = TextRefusal
    /\ Len(net[1]["ai"]) = 2 /\ Answers(1, "ai") = Answers(2, "ai")
    /\ Answers(1, "ai")[1] = Response(TRUE, TRUE, ErrLoading)
    /\ "Contains AI refusal patterns" \in Range(report[2].warnings)
    /\ Len(report[1].breakdown) = 6
    /\ report[1] = report[2]

\* what the client of source s resolved with, by its own last answer alone
AloneValue(r, s) ==
    LET last == LastExchange(net[r][s]) IN Client(last.model, last.resp).value

\* the report analyze returns for the subject of request r when it runs alone
\* and its requests get the answers request r got
AloneReport(r) ==
    LET sub == subject[r] IN
    IF sub.kind = "text"
    THEN TextResults(sub.text, Fulfilled(AloneValue(r, "ai")),
                     Fulfilled(analyzeLinguistics(sub.text)),
                     Fulfilled(analyzePatterns(sub.text)))
    ELSE ImageResults(sub.image, Fulfilled(AloneValue(r, "ai")),
                      Fulfilled(AloneValue(r, "deepfake")),
                      Fulfilled(analyzeMetadata(sub.image, sub.image.decodable)),
                      analyzePixelPatterns(sub.image))

C14_VerdictBands ==
    \A r \in Reqs : view[r] # NoView =>
        LET n == OverallOf(r).v
            verdict == view[r].verdict
        IN  /\ verdict \in {"authentic", "suspicious", "fake"}
            /\ verdict = "authentic" <=> n > 70
            /\ verdict = "suspicious" <=> n \in 41..70
            /\ verdict = "fake" <=> n <= 40

\* an image report with the overall score 70 was rendered as "suspicious"
C14_SeventyIsSuspicious ==
    \E r \in Reqs :
        /\ subject[r].kind = "image" /\ report[r].authenticityScore = Num(70)
        /\ view[r] # NoView /\ view[r].verdict = "suspicious"

\* the score of the entry of breakdown b that has one of the names
EntryNamed(b, names) == b[CHOOSE i \in 1..Len(b) : b[i].name \in names].score

\* C15: in every image report the derived flags agree with a threshold of 50
\* on the named entries: AI-generated is flagged exactly when the AI-detection
\* entry (of the model or of the fallback) is below 50, deepfake exactly when
\* the entry "Deepfake Detection" is below 50, manipulation exactly when the
\* entry "File Integrity" is below 50; the rendered items show these flags
C15_FlagsAtFifty ==
    \A r \in Reqs : (Returned(r) /\ subject[r].kind = "image") =>
        LET b == report[r].breakdown
            ai == EntryNamed(b, {NameImageModel, NameImageFallback})
            df == EntryNamed(b, {NameDeepfake})
            integrity == EntryNamed(b, {NameIntegrity})
            items == renderImageResults(report[r])
        IN  /\ report[r].aiGenerated <=> Lt(ai, Num(50))
            /\ Gt(report[r].deepfakeScore, Num(50)) <=> Lt(df, Num(50))
            /\ Gt(report[r].manipulationScore, Num(50)) <=> Lt(integrity, Num(50))
            /\ items.aiDetection = "Detected" <=> Lt(ai, Num(50))
            /\ items.deepfake = "Likely" <=> Lt(df, Num(50))
            /\ items.manipulation = "Detected" <=> Lt(integrity, Num(50))
            /\ view[r] # NoView => view[r] = items

\* a rendered image report in which the AI-detection entry is 45 and the
\* deepfake entry is the fixed 70: AI generation is shown as detected,
\* deepfake as unlikely
C15_FlaggedBelowFifty ==
    \E r \in Reqs :
        /\ Returned(r) /\ subject[r].kind = "image" /\ view[r] # NoView
        /\ report[r].breakdown[1] = Entry(NameImageModel, Num(45))
        /\ report[r].breakdown[2] = Entry(NameDeepfake, Num(70))
        /\ NoResult(r, "deepfake")
        /\ view[r].aiDetection = "Detected" /\ view[r].deepfake = "Unlikely"

\* what a text report and its rendering hold on AI generation: the warning of
\* the detection model, and the verdict labelled "Likely AI-Generated"
ClassifiedAIGenerated(r) ==
    \/ WarnTextAI \in Range(report[r].warnings)
    \/ renderTextResults(report[r]).verdict = "fake"

\* C16: every text report whose AI-detection entry is below 50 carries the
\* classification as AI-generated, and no text report whose entry is 50 or
\* above carries it
C16_ClassifiedBelowFifty ==
    \A r \in Reqs : (Returned(r) /\ subject[r].kind = "text") =>
        LET ai == EntryNamed(report[r].breakdown, {NameTextModel, NameTextFallback})
        IN  ClassifiedAIGenerated(r) <=> Lt(ai, Num(50))

\* a rendered text report whose AI-detection entry is 45: it has no warning
\* of the detection model and its verdict is not "fake"
C16_NotClassifiedAtFortyFive ==
    \E r \in Reqs :
        /\ Returned(r) /\ subject[r].kind = "text" /\ view[r] # NoView
        /\ report[r].breakdown[1] = Entry(NameTextModel, Num(45))
        /\ WarnTextAI \notin Range(report[r].warnings)
        /\ view[r].verdict # "fake"

\* no label of the array is one the client of the model looks for
NoVocabularyLabel(model, body) ==
    \A i \in 1..Len(body.items) : ~Match(model, ToLowerCase(body.items[i].label))

\* C17: when the answer a remote client ends on is a success response with an
\* array of labels and scores of which none is in the client's vocabulary (the
\* empty array included), the client returns the score 50 as its result, and
\* the report holds 50 as the entry of the remote model, not of a fallback
C17_DefaultFiftyWithoutLabel ==
    \A r \in Reqs : \A s \in RemoteSources(subject[r].kind) :
        LET last == LastExchange(net[r][s])
            unknownLabels ==
                /\ last.resp # Pending /\ last.resp.net /\ last.resp.ok
                /\ LabelScoreArray(last.resp.body)
                /\ NoVocabularyLabel(last.model, last.resp.body)
        IN  (remote[r][s].st = "settled" /\ unknownLabels) =>
                /\ remote[r][s].value = Result(FALSE, Num(50))
                /\ Returned(r) =>
                        report[r].breakdown[Place(s)] = Entry(ModelEntryName(r, s), Num(50))

\* an image report whose AI detector was answered with an empty array and
\* whose deepfake detector with the labels "artificial" and "human": both
\* entries are the remote models', at 50
C17_FiftyForEmptyAndUnknown ==
    \E r \in Reqs :
        /\ Returned(r) /\ subject[r].kind = "image"
        /\ LastExchange(net[r]["ai"]).resp = Response(TRUE, TRUE, Flat(<<>>))
        /\ LastExchange(net[r]["deepfake"]).resp =
                Response(TRUE, TRUE, Flat(<<Item("artificial", Num(875)), Item("human", Num(125))>>))
        /\ report[r].breakdown[1] = Entry(NameImageModel, Num(50))
        /\ report[r].breakdown[2] = Entry(NameDeepfake, Num(50))

\* the steps of a request: called, arrayBuffer awaited (image), sources
\* dispatched and collected, pixel analysis awaited (image), report returned;
\* a malformed subject rejects the call before any source starts
PcSteps ==
    {<<"start", "collecting">>, <<"start", "reading">>, <<"reading", "collecting">>,
     <<"collecting", "returned">>, <<"collecting", "pixels">>, <<"pixels", "returned">>,
     <<"start", "failed">>, <<"reading", "failed">>}

\* the sources of request r start in this step
Dispatching(r) == pc[r] \in {"start", "reading"} /\ pc'[r] = "collecting"

\* the entries that stand for the remote sources in the report of request r
\* are the fallback's for a source without result and the model's otherwise
TerminalEntries(r, rep) ==
    LET b == rep.breakdown
        aiFailed == remote[r]["ai"].value.null
        dfFailed == remote[r]["deepfake"].value.null
    IN  IF subject[r].kind = "text"
        THEN b[1].name = IF aiFailed THEN NameTextFallback ELSE NameTextModel
        ELSE /\ b[1].name = IF aiFailed THEN NameImageFallback ELSE NameImageModel
             /\ b[2].name = NameDeepfake
             /\ dfFailed => b[2].score = Num(70) /\ rep.deepfakeScore = Num(0)

\* C18: each request goes from its call through the dispatch of its sources
\* and their collection to one terminal state, in that order and once; every
\* source of the request is started in the dispatch step, once, and a source
\* that has settled (failed or not) is never started again; the report is
\* made in the step to the terminal state, with the fallback entries exactly
\* for the sources that failed, and never changes afterwards
C18_RequestStateMachine ==
    [][\A r \in Reqs :
        /\ pc'[r] # pc[r] => <<pc[r], pc'[r]>> \in PcSteps
        /\ pc[r] \in {"returned", "failed"} => pc'[r] = pc[r] /\ report'[r] = report[r]
        /\ pc'[r] # "returned" => report'[r] = NoReport
        /\ (pc[r] # "returned" /\ pc'[r] = "returned") =>
                /\ AllSettled(r)
                /\ TerminalEntries(r, report'[r])
        /\ \A s \in AllRemote :
                /\ remote'[r][s].st # "idle" <=>
                        \/ remote[r][s].st # "idle"
                        \/ Dispatching(r) /\ s \in RemoteSources(subject[r].kind)
                /\ (remote[r][s].st = "idle" /\ remote'[r][s].st # "idle") =>
                        Len(net'[r][s]) = 1
                /\ remote[r][s].st = "settled" =>
                        remote'[r][s] = remote[r][s] /\ net'[r][s] = net[r][s]
        /\ \A s \in AllLocal :
                /\ local'[r][s].st # "idle" <=>
                        \/ local[r][s].st # "idle"
                        \/ Dispatching(r) /\ s \in LocalSources(subject[r].kind)
                        \/ s = "pixel" /\ pc[r] = "collecting" /\ pc'[r] = "pixels"
                /\ local[r][s].st = "settled" => local'[r][s] = local[r][s]
      ]_vars

\* a rendered image report in the terminal state with fallback: the AI
\* detector failed once and has the fallback entry, and the deepfake detector
\* answered after one retry inside its client
C18_TerminalWithFallback ==
    \E r \in Reqs :
        /\ Returned(r) /\ subject[r].kind = "image" /\ view[r] # NoView
        /\ NoResult(r, "ai") /\ Len(net[r]["ai"]) = 1
        /\ report[r].breakdown[1].name = NameImageFallback
        /\ ~NoResult(r, "deepfake") /\ Len(net[r]["deepfake"]) = 2
        /\ report[r].breakdown[2] = Entry(NameDeepfake, Num(88))

\* the answer is a response that is not ok and whose error is not "loading"
HardError(resp) == resp # Pending /\ resp.net /\ ~resp.ok /\ ~LoadingError(resp)

\* C19: a response that is not a success and whose error does not indicate
\* "loading" is the last answer of its source, no further request follows it,
\* and the source ends without result
C19_NoRequestAfterHardError ==
    \A r \in Reqs : \A s \in RemoteSources(subject[r].kind) :
        \A i \in 1..Len(net[r][s]) : HardError(net[r][s][i].resp) =>
            /\ i = Len(net[r][s])
            /\ remote[r][s].st = "settled"
            /\ remote[r][s].value.null

\* a text report whose first request was answered with a response that is not
\* ok and has no JSON body: a second request went to the alternate model, and
\* the source ended with the result parsed from its answer
C19_SecondRequestAfterHardError ==
    \E r \in Reqs :
        /\ Returned(r) /\ subject[r].kind = "text"
        /\ Len(net[r]["ai"]) = 2
        /\ net[r]["ai"][1].model = ModelTextPrimary
        /\ net[r]["ai"][1].resp = Response(TRUE, FALSE, Unparseable)
        /\ net[r]["ai"][2].model = ModelTextAlternate
        /\ net[r]["ai"][2].resp.ok
        /\ ~NoResult(r, "ai")

\* the last request of source s of request r has been answered "loading"
AnsweredLoading(r, s) ==
    /\ net[r][s] # <<>>
    /\ LastExchange(net[r][s]).resp # Pending
    /\ LoadingError(LastExchange(net[r][s]).resp)

\* C20: every "loading" answer is followed by exactly one retry of the
\* request it answers, sent after the 20 s delay: the answer puts the client
\* into its delay without sending anything, and the one request that follows
\* a "loading" answer is sent at the end of the delay and is the same request
C20_OneRetryAfterDelay ==
    [][\A r \in Reqs : \A s \in RemoteSources(subject[r].kind) :
        /\ (~AnsweredLoading(r, s) /\ AnsweredLoading(r, s)') =>
                remote'[r][s].st = "waiting"
        /\ (AnsweredLoading(r, s) /\ net'[r][s] # net[r][s]) =>
                /\ remote[r][s].st = "waiting"
                /\ Len(net'[r][s]) = Len(net[r][s]) + 1
                /\ LET asked == LastExchange(net[r][s])
                       again == LastExchange(net'[r][s])
                   IN  /\ again.model = asked.model
                       /\ again.payload = asked.payload
                       /\ again.cred = asked.cred
        /\ remote[r][s].st = "waiting" =>
                /\ AnsweredLoading(r, s)
                /\ remote'[r][s].st \in {"waiting", "fetching"}
      ]_vars

\* a text request whose first request was answered "loading" by a response
\* that is not ok: the client is in no delay, and a request to the alternate
\* model is in flight
C20_RequestInFlightWithoutDelay ==
    \E r \in Reqs :
        /\ pc[r] = "collecting" /\ subject[r].kind = "text"
        /\ Len(net[r]["ai"]) = 2
        /\ net[r]["ai"][1].resp = Response(TRUE, FALSE, ErrLoading)
        /\ net[r]["ai"][2].model = ModelTextAlternate
        /\ net[r]["ai"][2].resp = Pending
        /\ remote[r]["ai"].st = "fetching"

\* C21: whenever a remote source of a request failed, the entry that stands
\* for it in the report carries a heuristic-fallback name, which is not the
\* name the entry has when the source succeeds
C21_FallbackNameDiffers ==
    \A r \in Reqs : Returned(r) =>
        \A s \in RemoteSources(subject[r].kind) : NoResult(r, s) =>
            LET name == report[r].breakdown[Place(s)].name
            IN  /\ name \in {NameTextFallback, NameImageFallback}
                /\ name # ModelEntryName(r, s)

\* an image report both of whose remote detectors failed on the network: the
\* AI-detection entry has the name of the heuristic, the deepfake entry has
\* the name it has after a success, "Deepfake Detection"
C21_DeepfakeNameUnchanged ==
    \E r \in Reqs :
        /\ Returned(r) /\ subject[r].kind = "image"
        /\ LastResponse(r, "ai") = NetworkError /\ NoResult(r, "ai")
        /\ LastResponse(r, "deepfake") = NetworkError /\ NoResult(r, "deepfake")
        /\ report[r].breakdown[1].name = NameImageFallback
        /\ report[r].breakdown[2].name = NameDeepfake
        /\ ModelEntryName(r, "deepfake") = NameDeepfake

\* the penalty that belongs to a warning of fallbackAIDetection
PenaltyOf(w) ==
    CASE w = WarnUniform -> 15
      [] w = WarnFormal -> 10
      [] w = WarnLowTTR -> 10
      [] w = WarnSensational -> 15
      [] w = WarnAbsolute -> 8

RECURSIVE TotalPenalty(_)
TotalPenalty(ws) ==
    IF ws = {} THEN 0
    ELSE LET w == CHOOSE x \in ws : TRUE IN PenaltyOf(w) + TotalPenalty(ws \ {w})

\* 75 minus the penalties of the triggered conditions, within 5 and 95
ExpectedFallbackScore(ws) == Max(5, Min(95, 75 - TotalPenalty(ws)))

\* the conditions of fallbackAIDetection the report of request r shows as triggered
Triggered(r) == Range(report[r].warnings) \cap FallbackWarnings

\* C22: the score of fallbackAIDetection is 75 minus the penalties of the
\* triggered conditions (15 uniform sentence lengths, 10 formal phrases, 10
\* low type-token ratio, 15 sensational terms, 8 absolutes), clamped to 5..95:
\* 75 when none is triggered, and strictly lower than the score of every
\* strictly smaller set of triggered conditions
C22_FallbackScore ==
    \A r \in Reqs : (Returned(r) /\ NoResult(r, "ai")) =>
        LET score == report[r].breakdown[1].score
        IN  /\ report[r].breakdown[1].name = NameTextFallback
            /\ score = Num(ExpectedFallbackScore(Triggered(r)))
            /\ Triggered(r) = {} => score = Num(75)
            /\ \A fewer \in SUBSET Triggered(r) :
                    fewer # Triggered(r) => score.v < ExpectedFallbackScore(fewer)

\* a text report made while the remote models failed, for a text that
\* triggers all five conditions: the fallback entry is 75 - 58 = 17
C22_AllFiveTriggered ==
    \E r \in Reqs :
        /\ Returned(r) /\ NoResult(r, "ai")
        /\ subject[r].text = FallbackText(TRUE, TRUE, TRUE, TRUE, TRUE)
        /\ Triggered(r) = FallbackWarnings
        /\ report[r].breakdown[1] = Entry(NameTextFallback, Num(17))

\* the rules of a table whose phrase, known by its first word, is in the text
RulesIn(text, Phrase(_), n) == {i \in 1..n : Head(Phrase(i)) \in Range(text)}

RECURSIVE WeightOf(_, _)
\* the sum of the weights of the rules hits of a table
WeightOf(rules, hits) ==
    IF hits = {} THEN 0
    ELSE LET i == CHOOSE x \in hits : TRUE IN rules[i].weight + WeightOf(rules, hits \ {i})

\* the warning texts of the rules hits of a table, in the order of the table
WarningsOf(rules, hits) ==
    PhrasesThrough(LAMBDA i : IF rules[i].msg # NoMsg THEN <<rules[i].msg>> ELSE <<>>,
                   hits, 1, Len(rules))

\* C23: analyzePatterns starts both scores at 70, adds the weight of every
\* matching rule of the group once, adds 10 to credibility for a source
\* mention or a link, 5 for quoted material, subtracts 5 for a text of more
\* than 500 characters without source mention and link, and returns both
\* scores within 5 and 95; the warnings are those of the matching rules that
\* have a warning text, and the report holds the two scores as its entries
C23_PatternScores ==
    \A r \in Reqs : (subject[r].kind = "text" /\ local[r]["pattern"].st = "settled") =>
        LET text == subject[r].text
            got == local[r]["pattern"].value
            ai == RulesIn(text, AIPhrase, 6)
            mis == RulesIn(text, MisinfoPhrase, 5)
            sourced == "according" \in Range(text) \/ "www" \in Range(text)
            quoted == "\"secret\"" \in Range(text)
            unsourced == ~sourced /\ TextLength(text) > 500
            natural == 70 + WeightOf(aiPatterns, ai)
            credibility == 70 + WeightOf(misinfoPatterns, mis)
                              + (IF sourced THEN 10 ELSE 0) + (IF quoted THEN 5 ELSE 0)
                              - (IF unsourced THEN 5 ELSE 0)
        IN  /\ got.naturalScore = Num(Max(5, Min(95, natural)))
            /\ got.credibilityScore = Num(Max(5, Min(95, credibility)))
            /\ got.warnings = WarningsOf(aiPatterns, ai) \o WarningsOf(misinfoPatterns, mis)
                                \o (IF unsourced THEN <<WarnNoSources>> ELSE <<>>)
            /\ Returned(r) =>
                    /\ report[r].breakdown[5] =
                            Entry("Writing Pattern Naturalness", got.naturalScore)
                    /\ report[r].breakdown[6] =
                            Entry("Content Credibility Signals", got.credibilityScore)

\* a text report for a text in which all six rules of aiPatterns match: the
\* weights sum to -76, the naturalness entry is 5, and the four rules that
\* have a warning text gave their warnings
C23_AllRulesClamped ==
    \E r \in Reqs :
        /\ Returned(r) /\ subject[r].text = PatternText(1..6, {}, {})
        /\ report[r].breakdown[5] = Entry("Writing Pattern Naturalness", Num(5))
        /\ report[r].breakdown[6] = Entry("Content Credibility Signals", Num(70))
        /\ Len(local[r]["pattern"].value.warnings) = 4

\* C24: analyzeMetadata returns integrity 70, less 10 for a payload smaller
\* than 10 KB (10000 bytes) and plus 5 for one larger than 5 MB (5 * 1024 *
\* 1024 bytes), and metadata 65, less 15 with the matching-dimensions warning
\* when width and height are both in {256, 512, 768, 1024, 2048} and less a
\* further 10 with the square warning when in addition they are equal, both
\* within 10 and 95; without dimensions it returns metadata 65 and the
\* integrity of the size alone
C24_MetadataScores ==
    \A r \in Reqs :
        (subject[r].kind = "image" /\ local[r]["metadata"].st = "settled") =>
            LET img == subject[r].image
                got == local[r]["metadata"].value
                sizes == {256, 512, 768, 1024, 2048}
                matching == img.decodable /\ img.width \in sizes /\ img.height \in sizes
                square == matching /\ img.width = img.height
                integrity == 70 - (IF img.size < 10000 THEN 10 ELSE 0)
                                + (IF img.size > 5 * 1024 * 1024 THEN 5 ELSE 0)
                metadata == 65 - (IF matching THEN 15 ELSE 0) - (IF square THEN 10 ELSE 0)
            IN  /\ img.isBlob => got.integrityScore = Num(Max(10, Min(95, integrity)))
                /\ got.metadataScore = Num(Max(10, Min(95, metadata)))
                /\ WarnDimensions(img.width, img.height) \in Range(got.warnings) <=> matching
                /\ WarnSquare \in Range(got.warnings) <=> square
                /\ ~img.decodable => got.metadataScore = Num(65)

\* analyzeMetadata returned for a File of 0 bytes: integrity is 70 and there
\* is no warning about the size, as "if (fileSize > 0)" skips both tests
C24_EmptyFileNotPenalised ==
    \E r \in Reqs :
        /\ subject[r].kind = "image"
        /\ subject[r].image.isBlob
        /\ subject[r].image.size = 0
        /\ local[r]["metadata"].st = "settled"
        /\ local[r]["metadata"].value.integrityScore = Num(70)
        /\ WarnSmallFile \notin Range(local[r]["metadata"].value.warnings)


\* the findings of the pixel analysis in the order the code tests them
PixelFindings(smooth, fewEdges, repeating) ==
    (IF smooth THEN <<WarnSmooth>> ELSE <<>>)
    \o (IF fewEdges THEN <<WarnEdges>> ELSE <<>>)
    \o (IF repeating THEN <<WarnRepeat>> ELSE <<>>)

\* the image could not be decoded or its canvas could not be read
PixelFailure(img) == ~img.decodable \/ ~img.canvasOk

\* C25: analyzePixelPatterns never fails: the call of analyze that waits for
\* it goes on to return its report; after a failure of decoding or of a later
\* step the result is score 60 with no warnings, otherwise it is 70 less 10
\* for the smoothness finding, 8 for the edge-density finding and 10 for the
\* repetition finding, within 10 and 95, with the warnings of these findings
C25_PixelScorerNeverFails ==
    [][\A r \in Reqs :
          (pc[r] = "pixels" /\ pc'[r] # "pixels") =>
              LET got == local'[r]["pixel"].value IN
              /\ pc'[r] = "returned"
              /\ local'[r]["pixel"].st = "settled"
              /\ report'[r].breakdown[5] = Entry(NamePixels, got.score)
              /\ IF PixelFailure(subject[r].image)
                 THEN got.score = Num(60) /\ got.warnings = <<>>
                 ELSE \E smooth, fewEdges, repeating \in BOOLEAN :
                        /\ got.warnings = PixelFindings(smooth, fewEdges, repeating)
                        /\ got.score = Num(Max(10, Min(95,
                                70 - (IF smooth THEN 10 ELSE 0)
                                   - (IF fewEdges THEN 8 ELSE 0)
                                   - (IF repeating THEN 10 ELSE 0))))]_vars

\* a report for an image that was decoded but whose canvas could not be read:
\* the pixel entry is 60 and the pixel analysis gave no warning
C25_CanvasFailureGivesSixty ==
    \E r \in Reqs :
        /\ pc[r] = "returned"
        /\ subject[r].image.decodable
        /\ ~subject[r].image.canvasOk
        /\ local[r]["pixel"].value = [score |-> Num(60), warnings |-> <<>>]
        /\ report[r].breakdown[5] = Entry(NamePixels, Num(60))


\* every pixel of the canvas has the same gray value, between black and white
UniformMidGray(img) ==
    /\ ~PixelFailure(img)
    /\ \E v \in 1..254 : \A p \in 1..Len(img.pixels) : img.pixels[p] = Gray(v)

\* C26: for an image whose pixels all have the same mid-gray value, the sum
\* of the absolute differences of adjacent histogram buckets divided by the
\* number of pixels is below 0.3, and the pixel scorer subtracts 10 for
\* smoothness and gives the smoothness warning
C26_UniformGraySmooth ==
    \A r \in Reqs :
        (subject[r].kind = "image" /\ local[r]["pixel"].st = "settled"
            /\ UniformMidGray(subject[r].image)) =>
            LET pixels == subject[r].image.pixels
                got == local[r]["pixel"].value
            IN  /\ 10 * SmoothnessScore(pixels) < 3 * Len(pixels)
                /\ WarnSmooth \in Range(got.warnings)
                /\ got.score = Num(70 - 10 - (IF WarnEdges \in Range(got.warnings) THEN 8 ELSE 0)
                                      - (IF WarnRepeat \in Range(got.warnings) THEN 10 ELSE 0))

\* the pixel analysis of a 2 x 2 image of gray 128: the one filled bucket
\* differs from both its neighbours, the sum is twice the number of pixels,
\* and the result is 52 (edge density and repetition) without the smoothness
\* warning
C26_UniformGrayNotSmooth ==
    \E r \in Reqs :
        /\ subject[r].kind = "image"
        /\ local[r]["pixel"].st = "settled"
        /\ subject[r].image.pixels = PixelsGray
        /\ ~PixelFailure(subject[r].image)
        /\ SmoothnessScore(subject[r].image.pixels) = 2 * Len(subject[r].image.pixels)
        /\ local[r]["pixel"].value = [score |-> Num(52), warnings |-> <<WarnEdges, WarnRepeat>>]


\* the sampled pixels (from 0) whose RGB triple equals that of the pixel one
\* stride further along
EqualStridePairs(pixels, sampleSize, stride) ==
    {i \in 0..(sampleSize - 1) :
        /\ i * stride + stride < Len(pixels)
        /\ pixels[i * stride + 1] = pixels[i * stride + stride + 1]}

\* C27: the repetition check compares each of the up to 1000 sampled pixels,
\* pixel i * stride, with pixel i * stride + stride, counts the pairs of
\* equal RGB triples, and subtracts 10 (with the repetition warning) exactly
\* when the number of equal pairs is more than 0.3 of the number of samples
C27_RepetitionStride ==
    \A r \in Reqs :
        (subject[r].kind = "image" /\ local[r]["pixel"].st = "settled"
            /\ ~PixelFailure(subject[r].image)) =>
            LET pixels == subject[r].image.pixels
                sampleSize == Min(1000, Len(pixels))
                stride == Len(pixels) \div sampleSize
                pairs == EqualStridePairs(pixels, sampleSize, stride)
            IN  WarnRepeat \in Range(local[r]["pixel"].value.warnings)
                    <=> 10 * Cardinality(pairs) > 3 * sampleSize

\* the pixel analysis of the 50 x 40 image of runs of two pixels (stride 2):
\* no sampled pixel equals the pixel one stride further along, the code
\* compares pixel 2i with pixel i + 2, finds 499 equal pairs of 1000 samples
\* and gives the repetition warning
C27_ComparesPixelIPlusStride ==
    \E r \in Reqs :
        /\ subject[r].kind = "image"
        /\ local[r]["pixel"].st = "settled"
        /\ subject[r].image.pixels = PixelsRuns
        /\ ~PixelFailure(subject[r].image)
        /\ EqualStridePairs(PixelsRuns, 1000, 2) = {}
        /\ RepeatCount(PixelsRuns, 1000, 2) = 499
        /\ local[r]["pixel"].value = [score |-> Num(60), warnings |-> <<WarnRepeat>>]


\* the results of the sources of request r, as Promise.allSettled gave them
SourceResults(r) ==
    [s \in RemoteSources(subject[r].kind) |-> remote[r][s].value]
    @@ [s \in LocalSources(subject[r].kind) |-> local[r][s].value]

\* C28: the order of the entries and of the warnings of a report does not
\* depend on the order in which the sources completed: two calls on the same
\* subject whose sources gave the same results returned the same breakdown
\* sequence and the same warnings sequence, in whatever order the sources of
\* each completed, a detector that completed last after a loading retry
\* included
C28_OrderIndependent ==
    \A p, q \in Reqs :
        (Returned(p) /\ Returned(q) /\ subject[p] = subject[q]
            /\ SourceResults(p) = SourceResults(q)) =>
            /\ report[p].breakdown = report[q].breakdown
            /\ report[p].warnings = report[q].warnings

\* two image reports with the same results: in call 1 the AI detector
\* answered "loading" first and completed after the retry while the deepfake
\* detector answered at once, in call 2 it was the other way round; both
\* reports have the five entries and the five warnings in the same order
C28_OppositeCompletionOrders ==
    /\ Reqs = {1, 2}
    /\ Returned(1) /\ Returned(2)
    /\ subject[1].kind = "image"
    /\ Len(net[1]["ai"]) = 2 /\ Len(net[1]["deepfake"]) = 1
    /\ Len(net[2]["ai"]) = 1 /\ Len(net[2]["deepfake"]) = 2
    /\ SourceResults(1) = SourceResults(2)
    /\ [i \in 1..Len(report[1].breakdown) |-> report[1].breakdown[i].name] =
            <<NameImageModel, NameDeepfake, NameIntegrity, NameMetadata, NamePixels>>
    /\ report[1].warnings =
            <<WarnImageAI, WarnDeepfake, WarnSmallFile, WarnEdges, WarnRepeat>>
    /\ report[1].breakdown = report[2].breakdown
    /\ report[1].warnings = report[2].warnings


\* the names of the entries of a breakdown, in their order
NameSequence(b) == [i \in 1..Len(b) |-> b[i].name]

\* C29: every returned report has a breakdown of fixed length and order,
\* whichever remote sources failed: a text report has six entries, the one
\* AI-detection entry (of the remote model or of the heuristic fallback) and
\* then Linguistic Diversity, Sentence Variation, Vocabulary Richness,
\* Writing Pattern Naturalness, Content Credibility Signals; an image report
\* has five entries, the one AI-detection entry and then Deepfake Detection,
\* File Integrity, Metadata Consistency, Pixel Pattern Analysis; no name
\* occurs twice
C29_FixedBreakdown ==
    \A r \in Reqs : Returned(r) =>
        LET names == NameSequence(report[r].breakdown) IN
        /\ IF subject[r].kind = "text"
           THEN /\ Len(names) = 6
                /\ names[1] \in {"AI Detection Model (RoBERTa)",
                                 "AI Detection (Heuristic Fallback)"}
                /\ SubSeq(names, 2, 6) =
                        <<"Linguistic Diversity", "Sentence Variation", "Vocabulary Richness",
                          "Writing Pattern Naturalness", "Content Credibility Signals">>
           ELSE /\ Len(names) = 5
                /\ names[1] \in {"AI Image Detection", "AI Detection (Heuristic)"}
                /\ SubSeq(names, 2, 5) =
                        <<"Deepfake Detection", "File Integrity", "Metadata Consistency",
                          "Pixel Pattern Analysis">>
        /\ \A i, j \in 1..Len(names) : names[i] = names[j] => i = j

\* an image report made after the AI detector answered and the deepfake
\* detector failed: five entries, the first with the name of the model
C29_FiveEntriesWithoutDeepfake ==
    \E r \in Reqs :
        /\ Returned(r)
        /\ subject[r].kind = "image"
        /\ ~NoResult(r, "ai")
        /\ NoResult(r, "deepfake")
        /\ NameSequence(report[r].breakdown) =
                <<NameImageModel, NameDeepfake, NameIntegrity, NameMetadata, NamePixels>>


\* C30: in every image report the File Integrity score is one of 60, 65, 70
\* and 75, manipulationScore is 100 less that score (or 0) and so never above
\* 50, and the page built from the report shows "Manipulation: Not Detected",
\* for every payload size and every image
C30_ManipulationNeverDetected ==
    \A r \in Reqs :
        (subject[r].kind = "image" /\ Returned(r)) =>
            LET integrity == report[r].breakdown[3] IN
            /\ integrity.name = "File Integrity"
            /\ integrity.score \in {Num(60), Num(65), Num(70), Num(75)}
            /\ report[r].manipulationScore \in {Num(100 - integrity.score.v), Num(0)}
            /\ report[r].manipulationScore.v <= 50
            /\ view[r] # NoView => view[r].manipulation = "Not Detected"

\* the page of a report for a File of 9999 bytes: File Integrity is 60,
\* manipulationScore is 40, the greatest there is, and the page shows
\* "Not Detected"
C30_SmallFileNotDetected ==
    \E r \in Reqs :
        /\ subject[r].kind = "image"
        /\ subject[r].image.isBlob /\ subject[r].image.size = 9999
        /\ Returned(r)
        /\ report[r].breakdown[3] = Entry(NameIntegrity, Num(60))
        /\ report[r].manipulationScore = Num(40)
        /\ view[r] # NoView
        /\ view[r].manipulation = "Not Detected"

=============================================================================
